---- MODULE Spec2Model ----
(***************************************************************************)
(* Model of the parametric propeller IC engine of FAST-GA                  *)
(* (fastga/models/propulsion/fuel_propulsion/basicIC_engine).              *)
(*                                                                         *)
(* Numbers.  The code computes in floating point; the model computes in    *)
(* fixed point with rounding to nearest.  Thrust is in N, speed in m/s,    *)
(* power in W, altitude in m; dimensionless quantities (efficiency, thrust *)
(* rate, density ratio, power rate, SFC ratio) are in 1/Scale.  Mach is in *)
(* 1/MachScale.                                                            *)
(*                                                                         *)
(* Scope.  Altitudes lie between sea level and the design altitude (and on *)
(* either side of them where one flight point is compared in its two       *)
(* forms), Mach                                                            *)
(* numbers are positive, and the propeller tables have increasing thrust   *)
(* and speed axes and positive efficiencies.  A flight point is a float    *)
(* (compute_flight_points' isinstance(mach, float) path) or a one-         *)
(* dimensional array of up to MaxPoints points; its thrust_is_regulated is *)
(* None or has one flag per point, its thrust_rate and thrust are None, a  *)
(* single value, or one value per point.  The two-dimensional spline of    *)
(* propeller_efficiency is taken piecewise linear, and the atmosphere is   *)
(* linearised.                                                             *)
(***************************************************************************)
EXTENDS Integers, Sequences, FiniteSets, TLC

VARIABLES
    engine,                     \* the BasicICEngine instance (constructor state)
    fp,                         \* the FlightPoint handed to compute_flight_points
    pc,                         \* position of the running call
    exc,                        \* the exception the call ended with, or NoExc
    frame,                      \* locals of the running call
    idx,                        \* max_thrust: index of the array loop
    thrust_max_global,          \* max_thrust: the result under construction
    propeller_efficiency,       \* max_thrust: efficiency iterate of the while loop
    efficiency_relative_error,  \* max_thrust: the quantity compared with 1e-2
    efficiency_old,             \* history: the iterate before the last update
    iterations,                 \* history: while-loop iterations of this element
    visited,                    \* history: loop states <<efficiency, error>> seen at the loop head
    result,                     \* value returned by a direct max_thrust call
    calls,                      \* history: what the running call has evaluated so far
    atmosphere,                 \* history: altitudes and Mach numbers of the last call
    given,                      \* history: the thrust inputs of the first call on fp
    mach_given,                 \* _compute_flight_points: its mach argument
    mach_handed,                \* _compute_flight_points: the value assigned to atmosphere.mach
    specific_shape,             \* self.specific_shape
    self_engine,                \* self.engine, an Engine
    nacelle,                    \* self.nacelle, None or a Nacelle
    reference,                  \* history: a call kept for comparison, inputs and outputs
    wing,                       \* a ComputeCnYawRateWing component and the variables it has used
    cg,                         \* the CG pipeline: its component inputs and what it has computed
    last_write                  \* history: per name, the last values written to an Engine

vars == <<engine, fp, pc, exc, frame, idx, thrust_max_global, propeller_efficiency,
          efficiency_relative_error, efficiency_old, iterations, visited, result, calls,
          atmosphere, given, mach_given, mach_handed, specific_shape, self_engine, nacelle,
          reference, wing, cg, last_write>>

\* the components other than the engine, and the history of direct writes
apart == <<wing, cg, last_write>>

\* the state outside the calls of compute_flight_points and max_thrust
others == <<mach_given, mach_handed, self_engine, nacelle, reference, apart>>

-----------------------------------------------------------------------------
(* Fixed point *)

Scale == 10^3
MachScale == 10^2

NoExc == "none"

Abs(x) == IF x < 0 THEN -x ELSE x
Min(a, b) == IF a <= b THEN a ELSE b
Max(a, b) == IF a >= b THEN a ELSE b

\* a / b rounded to the nearest integer, b > 0
RDiv(a, b) == (2 * a + b) \div (2 * b)

RECURSIVE SeqMin(_)
SeqMin(s) == IF Len(s) = 1 THEN s[1] ELSE Min(s[1], SeqMin(Tail(s)))

\* numpy.interp(x, xp, fp): linear interpolation, clamped to fp's ends outside xp
Interp(x, xp, fv) ==
    IF x <= xp[1] THEN fv[1]
    ELSE IF x >= xp[Len(xp)] THEN fv[Len(xp)]
    ELSE LET i == CHOOSE j \in 1..(Len(xp) - 1) : xp[j] <= x /\ x < xp[j + 1]
         IN  fv[i] + RDiv((fv[i + 1] - fv[i]) * (x - xp[i]), xp[i + 1] - xp[i])

-----------------------------------------------------------------------------
(* Bounds of the model *)

MaxPoints == 2          \* longest flight-point array
MaxIterations == 4      \* the iteration counter saturates here

-----------------------------------------------------------------------------
(* Atmosphere (fastoad.model_base.Atmosphere, used as a black box by the     *)
(* code): a linearised standard atmosphere.                                  *)

\* atmosphere.density / Atmosphere(0.0).density
DensityRatio(altitude) == Scale - RDiv(86 * altitude, Scale)

SpeedOfSound(altitude) == 340 - RDiv(4 * altitude, Scale)

\* atmosphere.true_airspeed, from atmosphere.mach
TrueAirspeed(mach, altitude) == RDiv(mach * SpeedOfSound(altitude), MachScale)

-----------------------------------------------------------------------------
(* Mach numbers.  1e-12 is far below the resolution 1/MachScale of the       *)
(* tables, so a Mach number is held exactly as hundredths / MachScale +      *)
(* tiny * 1e-12.                                                             *)

MachEpsilon == 1

ExactMach(h) == [hundredths |-> h, tiny |-> 0]
ZeroMach == ExactMach(0)

\* the Mach number at the resolution of the atmosphere and the tables
TableMach(m) == m.hundredths

\* Faulty variant of PerturbedMach: the epsilon is added to every element
PerturbedMachAlways(m) == [m EXCEPT !.tiny = @ + MachEpsilon]

\* one element of np.asarray(mach) + (np.asarray(mach) == 0) * 1e-12: adding
\* the product 0 * 1e-12 leaves a float as it is
PerturbedMach(m) == [m EXCEPT !.tiny = @ + (IF m = ZeroMach THEN 1 ELSE 0) * MachEpsilon]

-----------------------------------------------------------------------------
(* Constructor inputs *)

\* Propeller data of the constructor: design_altitude and the tables speed_*,
\* thrust_*, thrust_limit_* (one limit per speed), efficiency_* (one row per
\* speed, one column per thrust).
PropellerSameGrid ==
    [ name |-> "same_grid",
      design_altitude |-> 3000,
      speed_SL |-> <<30, 70>>, thrust_SL |-> <<200, 1000, 2000>>,
      thrust_limit_SL |-> <<2000, 1400>>,
      efficiency_SL |-> << <<500, 800, 700>>, <<600, 850, 750>> >>,
      speed_CL |-> <<30, 70>>, thrust_CL |-> <<200, 1000, 2000>>,
      thrust_limit_CL |-> <<1600, 1100>>,
      efficiency_CL |-> << <<450, 750, 650>>, <<550, 800, 700>> >> ]

\* The cruise-level table starts at a lower thrust than the sea-level one and
\* its efficiency falls steeply between 400 N and 500 N.
PropellerSteep ==
    [ name |-> "steep",
      design_altitude |-> 3000,
      speed_SL |-> <<30, 70>>, thrust_SL |-> <<1000, 2000>>,
      thrust_limit_SL |-> <<2000, 1400>>,
      efficiency_SL |-> << <<500, 500>>, <<500, 500>> >>,
      speed_CL |-> <<30, 70>>, thrust_CL |-> <<100, 400, 500, 2000>>,
      thrust_limit_CL |-> <<1600, 1100>>,
      efficiency_CL |-> << <<800, 800, 500, 500>>, <<800, 800, 500, 500>> >> ]

\* The cruise-level efficiency varies gently below the sea-level thrust range.
PropellerGentle ==
    [ name |-> "gentle",
      design_altitude |-> 3000,
      speed_SL |-> <<30, 70>>, thrust_SL |-> <<1000, 2000>>,
      thrust_limit_SL |-> <<2000, 1400>>,
      efficiency_SL |-> << <<500, 500>>, <<500, 500>> >>,
      speed_CL |-> <<30, 70>>, thrust_CL |-> <<100, 500, 1000, 2000>>,
      thrust_limit_CL |-> <<1600, 1100>>,
      efficiency_CL |-> << <<520, 510, 500, 500>>, <<520, 510, 500, 500>> >> ]

\* A design altitude above the flight altitudes.  The sea-level efficiency
\* rises between 1500 N and 1640 N, the cruise-level one falls between 995 N
\* and 1000 N, and the cruise-level thrust limit is half the sea-level one.
PropellerRising ==
    [ name |-> "rising",
      design_altitude |-> 6000,
      speed_SL |-> <<30, 70>>, thrust_SL |-> <<1000, 1500, 1640, 2000>>,
      thrust_limit_SL |-> <<2000, 2000>>,
      efficiency_SL |-> << <<300, 300, 700, 700>>, <<300, 300, 700, 700>> >>,
      speed_CL |-> <<30, 70>>, thrust_CL |-> <<100, 995, 1000>>,
      thrust_limit_CL |-> <<1000, 1000>>,
      efficiency_CL |-> << <<700, 700, 300>>, <<700, 700, 300>> >> ]

-----------------------------------------------------------------------------
(* propeller_efficiency *)

\* scipy.interpolate.interp2d(thrust, speed, efficiency, kind='cubic')(t, v):
\* the model takes the piecewise-linear interpolant through the table's nodes
\* for the spline through the same nodes, extended by its nearest node outside
\* the table
Interp2d(thrusts, speeds, efficiency, t, v) ==
    Interp(v, speeds, [r \in 1..Len(speeds) |-> Interp(t, thrusts, efficiency[r])])

thrust_interp_SL(prop, thrust, v) ==
    Min(Max(SeqMin(prop.thrust_SL), thrust), Interp(v, prop.speed_SL, prop.thrust_limit_SL))

thrust_interp_CL(prop, thrust, v) ==
    Min(Max(SeqMin(prop.thrust_CL), thrust), Interp(v, prop.speed_CL, prop.thrust_limit_CL))

EfficiencyLowerBound(prop, thrust, v) ==
    Interp2d(prop.thrust_SL, prop.speed_SL, prop.efficiency_SL, thrust_interp_SL(prop, thrust, v), v)

EfficiencyUpperBound(prop, thrust, v) ==
    Interp2d(prop.thrust_CL, prop.speed_CL, prop.efficiency_CL, thrust_interp_CL(prop, thrust, v), v)

\* np.size(thrust) == 1: the altitude blend is numpy.interp over [0, design_altitude]
PropellerEfficiencyFloat(prop, thrust, altitude, v) ==
    Interp(altitude, <<0, prop.design_altitude>>,
           <<EfficiencyLowerBound(prop, thrust, v), EfficiencyUpperBound(prop, thrust, v)>>)

\* np.size(thrust) > 1: one element of the array loop
PropellerEfficiencyElement(prop, thrust, altitude, v) ==
    LET lower_bound == EfficiencyLowerBound(prop, thrust, v)
        upper_bound == EfficiencyUpperBound(prop, thrust, v)
    IN  lower_bound
        + RDiv((upper_bound - lower_bound) * Min(altitude, prop.design_altitude),
               prop.design_altitude)

-----------------------------------------------------------------------------
(* max_thrust: the part before the branch on np.size(altitude) *)

NSamples == 10

\* max_power * (sigma - (1 - sigma) / 7.55), in W
AvailablePower(max_power, altitude) ==
    LET sigma == DensityRatio(altitude)
    IN  RDiv(max_power * (sigma - RDiv((Scale - sigma) * 100, 755)), Scale)

thrust_max_propeller(prop, altitude, v) ==
    LET lower_bound == Interp(v, prop.speed_SL, prop.thrust_limit_SL)
        upper_bound == Interp(v, prop.speed_CL, prop.thrust_limit_CL)
    IN  lower_bound
        + RDiv((upper_bound - lower_bound) * Min(altitude, prop.design_altitude),
               prop.design_altitude)

\* np.linspace(min(thrust_SL), thrust_max_propeller, 10)
thrust_interp(prop, altitude, v) ==
    LET first == SeqMin(prop.thrust_SL)
        last == thrust_max_propeller(prop, altitude, v)
    IN  [i \in 1..NSamples |-> first + RDiv((last - first) * (i - 1), NSamples - 1)]

\* propeller_efficiency(thrust_interp[idx], local_atmosphere): ten thrusts, so
\* the array branch of propeller_efficiency
SampledEfficiency(prop, altitude, v) ==
    LET t == thrust_interp(prop, altitude, v)
    IN  [i \in 1..NSamples |-> PropellerEfficiencyElement(prop, t[i], altitude, v)]

mechanical_power(prop, altitude, v) ==
    LET t == thrust_interp(prop, altitude, v)
        e == SampledEfficiency(prop, altitude, v)
    IN  [i \in 1..NSamples |-> RDiv(t[i] * v * Scale, e[i])]

\* np.min(mechanical_power) > max_power
PowerExceedsSamples(eng, altitude, v) ==
    SeqMin(mechanical_power(eng.prop, altitude, v)) > AvailablePower(eng.max_power, altitude)

\* np.interp(max_power, mechanical_power, thrust_interp)
InterpolatedMaxThrust(eng, altitude, v) ==
    Interp(AvailablePower(eng.max_power, altitude),
           mechanical_power(eng.prop, altitude, v), thrust_interp(eng.prop, altitude, v))

-----------------------------------------------------------------------------
(* Values of a FlightPoint field: None, or an array with its numpy shape     *)
(* (dims is <<>> for a scalar, <<m>> for a sequence of m) and its elements.  *)

None == [is |-> "none", dims |-> <<>>, v |-> <<>>]
Scalar(x) == [is |-> "value", dims |-> <<>>, v |-> <<x>>]
Array(s) == [is |-> "value", dims |-> <<Len(s)>>, v |-> s]
IsNone(a) == a.is = "none"
Size(a) == Len(a.v)

\* np.asarray(x).flatten()
Flatten(a) == IF IsNone(a) THEN None ELSE Array(a.v)

\* content of an element of np.empty_like(x): never initialised
Uninit == -999999
EmptyLike(a) == [is |-> "value", dims |-> a.dims, v |-> [i \in 1..Len(a.v) |-> Uninit]]

\* np.asarray(np.round(x, 0), dtype=bool) of one element given in 1/Scale:
\* rounded half to even, then non-zero
RoundToBool(x) ==
    LET q == x \div Scale
        r == x % Scale
        n == IF 2 * r > Scale \/ (2 * r = Scale /\ q % 2 = 1) THEN q + 1 ELSE q
    IN  n # 0

AsBool(a) == [is |-> "value", dims |-> a.dims, v |-> [i \in 1..Len(a.v) |-> RoundToBool(a.v[i])]]

-----------------------------------------------------------------------------
(* _check_thrust_inputs *)

InconsistentInput == "FastBasicICEngineInconsistentInputParametersError"

Raise(e, line) == [exc |-> e, line |-> line, thrust_is_regulated |-> None,
                   thrust_rate |-> None, thrust |-> None]
Checked(tir, rate, thrust) == [exc |-> NoExc, line |-> 339, thrust_is_regulated |-> tir,
                               thrust_rate |-> rate, thrust |-> thrust]

\* Faulty variant of CheckNone: the thrust is used when both are provided
CheckNoneThrustFirst(thrust_rate, thrust) ==
    IF ~IsNone(thrust) THEN
        Checked(Scalar(TRUE), EmptyLike(thrust), thrust)
    ELSE IF ~IsNone(thrust_rate) THEN
        Checked(Scalar(FALSE), thrust_rate, EmptyLike(thrust_rate))
    ELSE Raise(InconsistentInput, 303)

\* Faulty variant of CheckScalar: a missing input is taken as zero
CheckScalarDefaulting(thrust_is_regulated, thrust_rate, thrust) ==
    Checked(AsBool(thrust_is_regulated),
            IF IsNone(thrust_rate) THEN Scalar(0) ELSE thrust_rate,
            IF IsNone(thrust) THEN Scalar(0) ELSE thrust)

\* Faulty variant of CheckSequence: the shape of thrust is not compared
CheckSequenceRateOnly(thrust_is_regulated, thrust_rate, thrust) ==
    IF IsNone(thrust_rate) \/ IsNone(thrust) THEN Raise(InconsistentInput, 327)
    ELSE IF thrust_rate.dims # thrust_is_regulated.dims THEN Raise(InconsistentInput, 334)
    ELSE Checked(AsBool(thrust_is_regulated), thrust_rate, thrust)

\* thrust_is_regulated is None: "we will use the provided input between
\* thrust_rate and thrust"
CheckNone(thrust_rate, thrust) ==
    IF ~IsNone(thrust_rate) THEN
        Checked(Scalar(FALSE), thrust_rate, EmptyLike(thrust_rate))
    ELSE IF ~IsNone(thrust) THEN
        Checked(Scalar(TRUE), EmptyLike(thrust), thrust)
    ELSE Raise(InconsistentInput, 303)

\* np.size(thrust_is_regulated) == 1
CheckScalar(thrust_is_regulated, thrust_rate, thrust) ==
    IF AsBool(thrust_is_regulated).v[1] THEN
        IF IsNone(thrust) THEN Raise(InconsistentInput, 312)
        ELSE Checked(AsBool(thrust_is_regulated), EmptyLike(thrust), thrust)
    ELSE
        IF IsNone(thrust_rate) THEN Raise(InconsistentInput, 318)
        ELSE Checked(AsBool(thrust_is_regulated), thrust_rate, EmptyLike(thrust_rate))

\* thrust_is_regulated is a sequence
CheckSequence(thrust_is_regulated, thrust_rate, thrust) ==
    IF IsNone(thrust_rate) \/ IsNone(thrust) THEN Raise(InconsistentInput, 327)
    ELSE IF thrust_rate.dims # thrust_is_regulated.dims
            \/ thrust.dims # thrust_is_regulated.dims THEN Raise(InconsistentInput, 334)
    ELSE Checked(AsBool(thrust_is_regulated), thrust_rate, thrust)

\* thrust_is_regulated is None or an array of flags given in 1/Scale
_check_thrust_inputs(thrust_is_regulated, thrust_rate, thrust) ==
    IF IsNone(thrust_is_regulated) THEN CheckNone(thrust_rate, thrust)
    ELSE IF Size(thrust_is_regulated) = 1
         THEN CheckScalar(thrust_is_regulated, thrust_rate, thrust)
    ELSE CheckSequence(thrust_is_regulated, thrust_rate, thrust)

-----------------------------------------------------------------------------
(* sfc_at_max_power and sfc_ratio *)

\* 1125.9 * max_power ** (-0.2441), max_power in 0.1 kW, result in g/kWh:
\* the power law through its values at 1, 3, 10, 30, 60, 100 and 300 kW
PowerLawTwoStrokes(p10) ==
    Interp(p10, <<10, 30, 100, 300, 600, 1000, 3000>>, <<1126, 861, 642, 491, 414, 366, 280>>)

\* -0.0011 * max_power ** 2 + 0.5905 * max_power + 228.58
GasolineFourStrokes(p10) ==
    RDiv(RDiv(-11 * p10 * p10, 10^4) + RDiv(5905 * p10, 10^3) + 22858, 100)

\* -0.765 * max_power + 334.94
DieselTwoStrokes(p10) == RDiv(RDiv(-765 * p10, 100) + 33494, 100)

\* -0.964 * max_power + 231.91
DieselFourStrokes(p10) == RDiv(RDiv(-964 * p10, 100) + 23191, 100)

\* max power in kW of sfc_at_max_power, in 0.1 kW
MaxPowerKW(eng, altitude) == RDiv(AvailablePower(eng.max_power, altitude), 100)

\* SFC at maximum power in g/kWh (the code's value before its unit change)
sfc_at_max_power(eng, altitude) ==
    LET p10 == MaxPowerKW(eng, altitude)
        gasoline == IF eng.strokes_nb = 2 THEN PowerLawTwoStrokes(p10)
                    ELSE GasolineFourStrokes(p10)
    IN  IF eng.fuel_type = 1 THEN gasoline
        ELSE IF eng.fuel_type = 2 THEN
            IF eng.strokes_nb = 2 THEN DieselTwoStrokes(p10)
            ELSE DieselFourStrokes(p10)
        ELSE gasoline

\* propeller_efficiency(thrust, atmosphere) for element i of n thrusts
PropellerEfficiencyAt(prop, n, thrust, altitude, v) ==
    IF n = 1 THEN PropellerEfficiencyFloat(prop, thrust, altitude, v)
    ELSE PropellerEfficiencyElement(prop, thrust, altitude, v)

\* real_power / max_power of sfc_ratio, in 1/Scale, for one element
PowerRate(eng, n, max_thrust, thrust_rate, altitude, v) ==
    LET thrust == RDiv(max_thrust * thrust_rate, Scale)
        real_power == RDiv(thrust * v * Scale,
                           PropellerEfficiencyAt(eng.prop, n, thrust, altitude, v))
    IN  RDiv(real_power * Scale, AvailablePower(eng.max_power, altitude))

\* -0.9976 * power_rate ** 2 + 1.9964 * power_rate, in 1/Scale
SfcRatioPolynomial(power_rate) ==
    RDiv(-9976 * RDiv(power_rate * power_rate, Scale) + 19964 * power_rate, 10^4)

\* the second value sfc_ratio returns: power_rate * max_power, in W
MechPower(eng, altitude, power_rate) ==
    RDiv(power_rate * AvailablePower(eng.max_power, altitude), Scale)

ThrustFloor == 1

\* (sfc_pmax * sfc_ratio * mech_power) / np.maximum(out_thrust, 1e-6) for one
\* element, in g/kWh * 10 W / N
SfcElement(eng, n, max_thrust, out_thrust_rate, out_thrust, altitude, v) ==
    LET power_rate == PowerRate(eng, n, max_thrust, out_thrust_rate, altitude, v)
        sfc_pmax == sfc_at_max_power(eng, altitude)
    IN  RDiv(RDiv(sfc_pmax * SfcRatioPolynomial(power_rate), Scale)
                * RDiv(MechPower(eng, altitude, power_rate), 10),
             Max(out_thrust, ThrustFloor))

-----------------------------------------------------------------------------
(* _compute_flight_points after max_thrust has returned                      *)

\* element i of an array broadcast against n flight points
At(a, i) == IF Size(a) = 1 THEN a.v[1] ELSE a.v[i]

\* Faulty variant of ThrustFromRates: maximum_thrust is not restricted to idx
ThrustFromRatesByFirst(chk, max_thrust) ==
    [i \in 1..Len(max_thrust) |->
        IF ~At(chk.thrust_is_regulated, i)
        THEN RDiv(At(chk.thrust_rate, i) * max_thrust[1], Scale)
        ELSE At(chk.thrust, i)]

\* out_thrust[idx] = out_thrust_rate[idx] * maximum_thrust
ThrustFromRates(chk, max_thrust) ==
    [i \in 1..Len(max_thrust) |->
        IF ~At(chk.thrust_is_regulated, i)
        THEN RDiv(At(chk.thrust_rate, i) * max_thrust[i], Scale)
        ELSE At(chk.thrust, i)]

\* Faulty variant of OutThrust: the regulated thrusts are cut to the least of
\* the maximum thrusts
OutThrustCutToLeast(chk, max_thrust) ==
    LET t == ThrustFromRates(chk, max_thrust)
    IN  [i \in 1..Len(max_thrust) |->
            IF At(chk.thrust_is_regulated, i) THEN Min(t[i], SeqMin(max_thrust)) ELSE t[i]]

\* out_thrust[thrust_is_regulated] = np.minimum(out_thrust[...], max_thrust[...])
OutThrust(chk, max_thrust) ==
    LET t == ThrustFromRates(chk, max_thrust)
    IN  [i \in 1..Len(max_thrust) |->
            IF At(chk.thrust_is_regulated, i) THEN Min(t[i], max_thrust[i]) ELSE t[i]]

\* Faulty variant of OutThrustRate: every thrust is divided by the first maximum
OutThrustRateByFirst(out_thrust, max_thrust) ==
    [i \in 1..Len(max_thrust) |-> RDiv(out_thrust[i] * Scale, max_thrust[1])]

\* out_thrust_rate = out_thrust / max_thrust
OutThrustRate(out_thrust, max_thrust) ==
    [i \in 1..Len(max_thrust) |-> RDiv(out_thrust[i] * Scale, max_thrust[i])]

\* the triple _compute_flight_points returns
FlightPointResults(eng, altitude, mach, chk, max_thrust) ==
    LET n == Len(max_thrust)
        out_thrust == OutThrust(chk, max_thrust)
        out_thrust_rate == OutThrustRate(out_thrust, max_thrust)
    IN  [ sfc |-> [i \in 1..n |->
                     SfcElement(eng, n, max_thrust[i], out_thrust_rate[i], out_thrust[i],
                                altitude[i], TrueAirspeed(mach[i], altitude[i]))],
          thrust_rate |-> out_thrust_rate,
          thrust |-> out_thrust ]

-----------------------------------------------------------------------------
(* BasicICEngine.__init__ *)

\* fastoad.constants.EngineSetting
EngineSetting == {"TAKEOFF", "CLIMB", "CRUISE", "IDLE"}

mixture_values == [TAKEOFF |-> 15, CLIMB |-> 15, CRUISE |-> 10, IDLE |-> 10]

unknown_keys == {key \in EngineSetting : key \notin DOMAIN mixture_values}

UnknownEngineSetting == "FastUnknownEngineSettingError"

EngineConfigurations ==
    { [max_power |-> 60000, fuel_type |-> 1, strokes_nb |-> 4, prop_layout |-> 1,
       prop |-> PropellerSameGrid],
      [max_power |-> 3000, fuel_type |-> 1, strokes_nb |-> 2, prop_layout |-> 3,
       prop |-> PropellerSameGrid],
      [max_power |-> 32600, fuel_type |-> 2, strokes_nb |-> 4, prop_layout |-> 1,
       prop |-> PropellerSteep],
      [max_power |-> 60000, fuel_type |-> 3, strokes_nb |-> 4, prop_layout |-> 1,
       prop |-> PropellerGentle],
      [max_power |-> 153800, fuel_type |-> 1, strokes_nb |-> 4, prop_layout |-> 1,
       prop |-> PropellerRising] }

-----------------------------------------------------------------------------
(* Engine and Nacelle: dicts whose declared keys are also attributes          *)
(* (DynamicAttributeDict with AddKeyAttributes).  item is the dict, attr the  *)
(* instance attributes that are not declared keys.                            *)

ENGINE_LABELS == {"power_SL", "mass", "length", "height", "width"}
NACELLE_LABELS == {"wet_area", "length", "height", "width"}
Names == ENGINE_LABELS \cup NACELLE_LABELS \cup {"foo"}

\* no item under the key (KeyError), no attribute of the name (AttributeError)
Absent == -999998

NoDict == [is |-> "none", labels |-> {}, item |-> [k \in Names |-> Absent],
           attr |-> [k \in Names |-> Absent]]
NewDict(labels) == [NoDict EXCEPT !.is = "dict", !.labels = labels]

GetItem(d, key) == d.item[key]
SetItem(d, key, value) == [d EXCEPT !.item[key] = value]

\* Faulty variant of SetAttr: the name is not mapped to the key
SetAttrUnmapped(d, name, value) == [d EXCEPT !.attr[name] = value]

GetAttr(d, name) == IF name \in d.labels THEN d.item[name] ELSE d.attr[name]
SetAttr(d, name, value) ==
    IF name \in d.labels THEN [d EXCEPT !.item[name] = value]
    ELSE [d EXCEPT !.attr[name] = value]

-----------------------------------------------------------------------------
(* compute_weight and compute_dimensions.  Masses are in kg, lengths in mm,  *)
(* areas in cm2.                                                             *)

\* self.ref
ref(eng) ==
    IF eng.fuel_type = 1
    THEN [max_power |-> 132480, length |-> 830, height |-> 570, width |-> 850, mass |-> 136]
    ELSE [max_power |-> 160000, length |-> 859, height |-> 659, width |-> 650, mass |-> 205]

\* x ** (1 / 3) for x in 1/Scale, to the nearest 1/Scale below
CubeRoot(x) == CHOOSE c \in 0..1289 : c * c * c <= x * Scale * Scale /\ x * Scale * Scale < (c + 1) * (c + 1) * (c + 1)

\* ((max_power / 745.7) - 21.55) / 0.5515
uninstalled_weight(eng) == RDiv((RDiv(eng.max_power * 1000, 7457) - 2155) * 100, 5515)

\* self.engine after compute_weight
WeightWritten(eng, e) == SetAttr(e, "mass", uninstalled_weight(eng))

\* self.engine after the first three assignments of compute_dimensions
DimensionsWritten(eng, e) ==
    LET r == ref(eng)
        k == CubeRoot(RDiv(eng.max_power * Scale, r.max_power))
        e1 == SetAttr(e, "length", RDiv(r.length * k, Scale))
        e2 == SetAttr(e1, "height", RDiv(r.height * k, Scale))
    IN  SetAttr(e2, "width", RDiv(r.width * k, Scale))

\* self.nacelle after compute_dimensions, from the engine it has just written
NacelleBuilt(eng, e) ==
    LET nacelle_length == IF eng.prop_layout = 3 THEN RDiv(115 * GetAttr(e, "length"), 100)
                          ELSE RDiv(150 * GetAttr(e, "length"), 100)
        n1 == SetItem(NewDict(NACELLE_LABELS), "height", RDiv(GetAttr(e, "height") * 11, 10))
        n2 == SetItem(n1, "width", RDiv(GetAttr(e, "width") * 11, 10))
        n3 == SetItem(n2, "length", nacelle_length)
    IN  SetAttr(n3, "wet_area",
                RDiv(2 * (GetAttr(n3, "height") + GetAttr(n3, "width")) * GetAttr(n3, "length"),
                     100))

\* the tuple compute_dimensions returns
Dimensions(n) ==
    <<GetItem(n, "height"), GetItem(n, "width"), GetItem(n, "length"), GetItem(n, "wet_area")>>

-----------------------------------------------------------------------------
(* ComputeCnYawRateWing: the wing's part of the yaw moment due to yaw rate.  *)
(* Coefficients are in 1/Scale, angles in mrad.                              *)

\* the inputs setup declares and compute reads whatever the option
CommonInputs ==
    { "data:geometry:wing:aspect_ratio", "data:geometry:wing:taper_ratio",
      "data:geometry:wing:sweep_25", "data:handling_qualities:stick_fixed_static_margin",
      "settings:aerodynamics:reference_flight_conditions:AOA" }

\* setup: the add_input calls
SetupInputs(low_speed_aero) ==
    CommonInputs \cup
        IF low_speed_aero
        THEN { "data:aerodynamics:wing:low_speed:CD0", "data:aerodynamics:wing:low_speed:CL0_clean",
               "data:aerodynamics:wing:low_speed:CL_alpha" }
        ELSE { "data:aerodynamics:wing:cruise:CD0", "data:aerodynamics:wing:cruise:CL0_clean",
               "data:aerodynamics:wing:cruise:CL_alpha" }

\* setup: the add_output call
SetupOutputs(low_speed_aero) ==
    IF low_speed_aero THEN {"data:aerodynamics:wing:low_speed:Cn_r"}
    ELSE {"data:aerodynamics:wing:cruise:Cn_r"}

\* Faulty variant of ComputeInputs: the cruise values are read whatever the option
ComputeInputsCruise(low_speed_aero) ==
    [ cd_0_wing |-> "data:aerodynamics:wing:cruise:CD0",
      cl_0_wing |-> "data:aerodynamics:wing:cruise:CL0_clean",
      cl_alpha_wing |-> "data:aerodynamics:wing:cruise:CL_alpha" ]

\* compute: the names under which cd_0_wing, cl_0_wing and cl_alpha_wing are read
ComputeInputs(low_speed_aero) ==
    IF low_speed_aero
    THEN [ cd_0_wing |-> "data:aerodynamics:wing:low_speed:CD0",
           cl_0_wing |-> "data:aerodynamics:wing:low_speed:CL0_clean",
           cl_alpha_wing |-> "data:aerodynamics:wing:low_speed:CL_alpha" ]
    ELSE [ cd_0_wing |-> "data:aerodynamics:wing:cruise:CD0",
           cl_0_wing |-> "data:aerodynamics:wing:cruise:CL0_clean",
           cl_alpha_wing |-> "data:aerodynamics:wing:cruise:CL_alpha" ]

\* compute: the name under which cn_r_w is written
ComputeOutput(low_speed_aero) ==
    IF low_speed_aero THEN "data:aerodynamics:wing:low_speed:Cn_r"
    ELSE "data:aerodynamics:wing:cruise:Cn_r"

\* lift_effect * cl_w ** 2.0 + drag_effect * cd_0_wing
cn_r_w(lift_effect, drag_effect, cl_0_wing, cl_alpha_wing, aoa_ref, cd_0_wing) ==
    LET cl_w == cl_0_wing + RDiv(cl_alpha_wing * aoa_ref, Scale)
    IN  RDiv(lift_effect * RDiv(cl_w * cl_w, Scale), Scale) + RDiv(drag_effect * cd_0_wing, Scale)

\* the component after initialize(), with its option set
WingComponent(low_speed_aero) ==
    [ stage |-> "initialized", low_speed_aero |-> low_speed_aero,
      declared_inputs |-> {}, declared_outputs |-> {}, read |-> {}, written |-> {},
      values |-> <<>>, cn_r |-> 0 ]

-----------------------------------------------------------------------------
(* The CG pipeline (fastga.models.weight.cg): masses in kg, positions along  *)
(* x in mm, MAC positions in 1/Scale of the mean aerodynamic chord.          *)

RECURSIVE TotalMass(_)
TotalMass(parts) == IF parts = <<>> THEN 0 ELSE parts[1].mass + TotalMass(Tail(parts))

RECURSIVE TotalMoment(_)
TotalMoment(parts) ==
    IF parts = <<>> THEN 0 ELSE parts[1].mass * parts[1].x + TotalMoment(Tail(parts))

\* Faulty variant of Aggregate: the CGs are averaged without their masses
AggregateUnweighted(parts) ==
    [ mass |-> TotalMass(parts),
      x |-> RDiv(TotalMoment([i \in 1..Len(parts) |-> [mass |-> 1, x |-> parts[i].x]]),
                 Len(parts)) ]

\* Faulty variant of Aggregate: parts lighter than 50 kg are left out of the CG
AggregateHeavyParts(parts) ==
    LET heavy == SelectSeq(parts, LAMBDA p : p.mass >= 50)
    IN  [ mass |-> TotalMass(parts),
          x |-> IF heavy = <<>> THEN 0 ELSE RDiv(TotalMoment(heavy), TotalMass(heavy)) ]

\* aggregate mass and CG of parts that each have a mass and a CG
Aggregate(parts) ==
    [mass |-> TotalMass(parts), x |-> RDiv(TotalMoment(parts), TotalMass(parts))]

\* CG position as a fraction of the mean aerodynamic chord
MacPosition(x) == RDiv((x - 2550) * Scale, 1200)

\* airframe, then empty aircraft
EmptyAircraft(c) ==
    LET airframe == Aggregate(<<c.wing, c.fuselage, c.tail>>)
    IN  [airframe |-> airframe, empty |-> Aggregate(<<airframe, c.engine, c.seats>>)]

\* what is loaded on the empty aircraft in the configurations of a load case:
\* payload and fuel, each with its mass and CG
Loadings(case) ==
    IF case = "ground"
    THEN { <<[mass |-> 0, x |-> 3220], [mass |-> 0, x |-> 3130]>>,
           <<[mass |-> 320, x |-> 3420], [mass |-> 0, x |-> 3130]>>,
           <<[mass |-> 0, x |-> 3220], [mass |-> 150, x |-> 3130]>> }
    ELSE { <<[mass |-> 80, x |-> 2900], [mass |-> 150, x |-> 3130]>>,
           <<[mass |-> 80, x |-> 2900], [mass |-> 20, x |-> 3130]>>,
           <<[mass |-> 400, x |-> 3520], [mass |-> 150, x |-> 3130]>> }

Loaded(empty, loading) == Aggregate(<<empty, loading[1], loading[2]>>)

\* a load case: the extreme MAC positions of its loaded configurations
LoadCase(empty, case) ==
    LET positions == { MacPosition(Loaded(empty, l).x) : l \in Loadings(case) }
    IN  [ max |-> CHOOSE p \in positions : \A q \in positions : q <= p,
          min |-> CHOOSE p \in positions : \A q \in positions : p <= q ]

\* Faulty variant of Envelope: the flight case is left out of the aft limit
EnvelopeGroundAft(cases, margin) ==
    [ aft |-> cases.ground.max + margin.aft,
      fwd |-> Min(cases.ground.min, cases.flight.min) - margin.fwd ]

\* the aircraft's aft and forward limits, with their margins
Envelope(cases, margin) ==
    [ aft |-> Max(cases.ground.max, cases.flight.max) + margin.aft,
      fwd |-> Min(cases.ground.min, cases.flight.min) - margin.fwd ]

\* the component CGs and masses of a problem, every mass multiplied by k and
\* every CG moved by delta
Transformed(c, k, delta) ==
    [name \in DOMAIN c |-> [mass |-> k * c[name].mass, x |-> c[name].x + delta]]

NoAggregate == [mass |-> 0, x |-> 0]
NoCase == [max |-> 0, min |-> 0]

CGProblem(c, k, delta, margin) ==
    [ stage |-> "inputs", components |-> c, k |-> k, delta |-> delta, margin |-> margin,
      airframe |-> NoAggregate, empty |-> NoAggregate, moved |-> NoAggregate,
      cases |-> [ground |-> NoCase, flight |-> NoCase], aft |-> 0, fwd |-> 0 ]

Components ==
    { [ wing |-> [mass |-> wing_mass, x |-> 2980],
        fuselage |-> [mass |-> 200, x |-> fuselage_x],
        tail |-> [mass |-> 30, x |-> 6970],
        engine |-> [mass |-> engine_mass, x |-> 990],
        seats |-> [mass |-> 30, x |-> 3223] ] :
        wing_mass \in {150, 250}, fuselage_x \in {3000, 3560}, engine_mass \in {200, 300} }

\* nothing has been written to the Engine from outside
NoWrites == [name \in Names |-> [item |-> Absent, attr |-> Absent, last |-> Absent, by |-> "none"]]

\* the other components are not used
Apart ==
    /\ wing = WingComponent(FALSE)
    /\ cg = CGProblem(CHOOSE c \in Components : TRUE, 1, 0, [aft |-> 0, fwd |-> 0])
    /\ last_write = NoWrites

-----------------------------------------------------------------------------
(* The flight points the callers hand in *)

\* A flight condition and a thrust demand: a regulation flag (in 1/Scale), a
\* thrust rate (in 1/Scale) and a thrust (in N).
Conditions == { [mach |-> 10, altitude |-> 3000], [mach |-> 20, altitude |-> 0] }
Demands ==
    { [flag |-> 1000, thrust_rate |-> 500, thrust |-> 300],
      [flag |-> 1000, thrust_rate |-> 500, thrust |-> 5000],
      [flag |-> 0, thrust_rate |-> 500, thrust |-> 300],
      [flag |-> 0, thrust_rate |-> 3000, thrust |-> 300] }
Settings == {"CRUISE", "UNKNOWN"}

\* How the caller fills thrust_is_regulated, thrust_rate and thrust
Presentations ==
    { "flags", "flags_no_rate", "flags_no_thrust", "flags_scalar_rate", "flags_scalar_thrust",
      "none_rate", "none_thrust", "none_both", "none_neither" }

Present(kind, flags, rates, thrusts) ==
    [ thrust_is_regulated |->
        IF kind \in {"none_rate", "none_thrust", "none_both", "none_neither"} THEN None
        ELSE flags,
      thrust_rate |->
        IF kind \in {"flags_no_rate", "none_thrust", "none_neither"} THEN None
        ELSE IF kind = "flags_scalar_rate" THEN Scalar(rates.v[1])
        ELSE rates,
      thrust |->
        IF kind \in {"flags_no_thrust", "none_rate", "none_neither"} THEN None
        ELSE IF kind = "flags_scalar_thrust" THEN Scalar(thrusts.v[1])
        ELSE thrusts ]

FlightPoint(shape, c, d, kind, setting) ==
    LET Wrap(s) == IF shape = "float" THEN Scalar(s[1]) ELSE Array(s)
        n == Len(c)
        p == Present(kind, Wrap([i \in 1..n |-> d[i].flag]),
                     Wrap([i \in 1..n |-> d[i].thrust_rate]),
                     Wrap([i \in 1..n |-> d[i].thrust]))
    IN  [ shape |-> shape,
          mach |-> Wrap([i \in 1..n |-> c[i].mach]),
          altitude |-> Wrap([i \in 1..n |-> c[i].altitude]),
          engine_setting |-> setting,
          thrust_is_regulated |-> p.thrust_is_regulated,
          thrust_rate |-> p.thrust_rate,
          thrust |-> p.thrust,
          sfc |-> None ]

FlightPoints ==
    { FlightPoint("float", c, d, kind, setting) :
        c \in [1..1 -> Conditions], d \in [1..1 -> Demands],
        kind \in Presentations, setting \in Settings }
    \cup UNION { { FlightPoint("array", c, d, kind, setting) :
                     c \in [1..n -> Conditions], d \in [1..n -> Demands],
                     kind \in Presentations, setting \in Settings } : n \in 1..MaxPoints }

-----------------------------------------------------------------------------
(* State machine.  A call of compute_flight_points or of max_thrust runs     *)
(* from its entry to its return or to the exception that ends it.  The       *)
(* array loop of max_thrust takes one step per element and its while loop    *)
(* one step per iteration; everything else of a call happens in the step     *)
(* that reaches it.  sfc_ratio calls max_thrust a second time on the same    *)
(* atmosphere: max_thrust reads no state that the first call wrote, so the   *)
(* second call repeats the first and its value is the first one's.           *)

NoFrame == [op |-> "none", altitude |-> <<>>, mach |-> <<>>, chk |-> Raise(NoExc, 0)]
NotGiven == [is |-> "none", thrust_is_regulated |-> None, thrust_rate |-> None, thrust |-> None]
Given(f) == [is |-> "first", thrust_is_regulated |-> f.thrust_is_regulated,
             thrust_rate |-> f.thrust_rate, thrust |-> f.thrust]

\* what _compute_flight_points evaluates, in order
CheckOnly == <<"_check_thrust_inputs">>
UpToMaxThrust == <<"_check_thrust_inputs", "max_thrust">>
AllCalls == <<"_check_thrust_inputs", "max_thrust", "sfc_at_max_power", "sfc_ratio">>

RelTol == Scale \div 100

\* max_thrust reads the engine and the atmosphere only: its branch test and its
\* interpolated value, evaluated once for each engine and flight condition
MaxThrustEntry(eng, c) ==
    LET v == TrueAirspeed(c.mach, c.altitude)
        exceeds == PowerExceedsSamples(eng, c.altitude, v)
    IN  [exceeds |-> exceeds,
         interpolated |-> IF exceeds THEN 0
                          ELSE InterpolatedMaxThrust(eng, c.altitude, v),
         efficiency |-> SampledEfficiency(eng.prop, c.altitude, v)[1]]
MaxThrustTable == [eng \in EngineConfigurations, c \in Conditions |-> MaxThrustEntry(eng, c)]
Tabulated(eng, altitude, mach) ==
    LET c == [mach |-> mach, altitude |-> altitude]
    IN  IF eng \in EngineConfigurations /\ c \in Conditions THEN MaxThrustTable[eng, c]
        ELSE MaxThrustEntry(eng, c)

UnboundLocal == "UnboundLocalError"

\* np.shape(flight_points.mach), as self.specific_shape holds it
NoShape == [is |-> "unset", dims |-> <<>>]
ShapeOf(a) == [is |-> "set", dims |-> a.dims]

\* Faulty variant of SizeIsOne: a float only
SizeIsOneForFloats(a) == a.dims = <<>>

\* np.size(a) == 1: a float or an array of one element
SizeIsOne(a) == Size(a) = 1

\* compute_flight_points: the arguments handed to _compute_flight_points
Arguments(f) ==
    IF f.shape = "float"
    THEN [thrust_is_regulated |-> f.thrust_is_regulated, thrust_rate |-> f.thrust_rate,
          thrust |-> f.thrust]
    ELSE [thrust_is_regulated |-> Flatten(f.thrust_is_regulated),
          thrust_rate |-> Flatten(f.thrust_rate), thrust |-> Flatten(f.thrust)]

\* Faulty variant of Written: the results take the shape that the previous
\* call left in self.specific_shape
WrittenByStaleShape(f, res) ==
    LET Wrap(s) == IF specific_shape.is = "unset"
                   THEN IF f.shape = "float" THEN Scalar(s[1]) ELSE Array(s)
                   ELSE [is |-> "value", dims |-> specific_shape.dims, v |-> s]
    IN  [f EXCEPT !.sfc = Wrap(res.sfc), !.thrust_rate = Wrap(res.thrust_rate),
                  !.thrust = Wrap(res.thrust)]

\* compute_flight_points: the assignments to the flight point after the return
Written(f, res) ==
    LET Wrap(s) == IF f.shape = "float" THEN Scalar(s[1]) ELSE Array(s)
    IN  [f EXCEPT !.sfc = Wrap(res.sfc), !.thrust_rate = Wrap(res.thrust_rate),
                  !.thrust = Wrap(res.thrust)]

\* Faulty variant of InputError: the flight point's engine setting is looked up
InputErrorWithSetting(f) ==
    LET a == Arguments(f)
    IN  IF f.engine_setting \notin DOMAIN mixture_values THEN UnknownEngineSetting
        ELSE _check_thrust_inputs(a.thrust_is_regulated, a.thrust_rate, a.thrust).exc

\* the exception, if any, that _compute_flight_points raises before max_thrust
InputError(f) ==
    LET a == Arguments(f)
    IN  _check_thrust_inputs(a.thrust_is_regulated, a.thrust_rate, a.thrust).exc

LoopReset ==
    /\ propeller_efficiency' = 0
    /\ efficiency_relative_error' = 0
    /\ efficiency_old' = 0
    /\ iterations' = 0
    /\ visited' = {}

\* the call ends; the model keeps max_thrust's value for the properties
Ends(state, e, tmg) ==
    /\ pc' = state
    /\ exc' = e
    /\ frame' = NoFrame
    /\ idx' = 0
    /\ thrust_max_global' = tmg

\* max_thrust entered with the atmosphere of n flight points
EnterMaxThrust(op, altitude, mach, chk) ==
    /\ pc' = "max_thrust"
    /\ exc' = NoExc
    /\ frame' = [op |-> op, altitude |-> altitude, mach |-> mach, chk |-> chk]
    /\ idx' = 1
    /\ thrust_max_global' = [i \in 1..Len(altitude) |-> 0]

Call(f, g) ==
    LET a == Arguments(f)
        chk == _check_thrust_inputs(a.thrust_is_regulated, a.thrust_rate, a.thrust)
        altitude == f.altitude.v
        mach == [i \in 1..Len(f.mach.v) |-> TableMach(PerturbedMach(ExactMach(f.mach.v[i])))]
        first == Tabulated(engine, altitude[1], mach[1])
    IN  /\ given' = g
        /\ specific_shape' = ShapeOf(f.mach)
        /\ atmosphere' = [altitude |-> altitude, mach |-> mach]
        /\ result' = <<>>
        /\ LoopReset
        /\ IF InputError(f) # NoExc THEN
                fp' = f /\ calls' = CheckOnly /\ Ends("raised", InputError(f), <<>>)
           ELSE IF SizeIsOne(f.altitude) THEN
                IF first.exceeds
                THEN fp' = f /\ calls' = UpToMaxThrust /\ Ends("raised", UnboundLocal, <<>>)
                ELSE /\ fp' = Written(f, FlightPointResults(engine, altitude, mach, chk,
                                                            <<first.interpolated>>))
                     /\ calls' = AllCalls
                     /\ Ends("returned", NoExc, <<first.interpolated>>)
           ELSE /\ fp' = f
                /\ calls' = UpToMaxThrust
                /\ EnterMaxThrust("compute_flight_points", altitude, mach, chk)

\* engine.compute_flight_points(flight_points)
ComputeFlightPoints ==
    /\ pc = "idle"
    /\ \E f \in FlightPoints : Call(f, Given(f))
    /\ UNCHANGED <<engine, others>>

\* The caller's round trip: on the flight point of a returned call, whose thrust
\* and thrust_rate the call has written, regulate the points that were driven
\* by a thrust rate and drive by thrust rate those that were regulated, and
\* compute again.
Regulated(g, i) ==
    IF IsNone(g.thrust_is_regulated) THEN IsNone(g.thrust_rate)
    ELSE RoundToBool(At(g.thrust_is_regulated, i))

Flipped(f, g) ==
    LET n == Size(f.mach)
        flags == [i \in 1..n |-> IF Regulated(g, i) THEN 0 ELSE Scale]
    IN  [f EXCEPT !.thrust_is_regulated =
                     IF f.shape = "float" THEN Scalar(flags[1]) ELSE Array(flags)]

RoundTrip ==
    /\ pc = "returned"
    /\ given.is = "first"
    /\ Call(Flipped(fp, given), [given EXCEPT !.is = "round_trip"])
    /\ UNCHANGED <<engine, others>>

\* engine.max_thrust(atmosphere), called directly
MaxThrust ==
    /\ pc = "idle"
    /\ \E n \in 1..MaxPoints : \E c \in [1..n -> Conditions] :
          LET altitude == [i \in 1..n |-> c[i].altitude]
              mach == [i \in 1..n |-> c[i].mach]
              first == Tabulated(engine, altitude[1], mach[1])
          IN  /\ LoopReset
              /\ atmosphere' = [altitude |-> altitude, mach |-> mach]
              /\ IF n = 1 THEN
                    IF first.exceeds
                    THEN result' = <<>> /\ Ends("raised", UnboundLocal, <<>>)
                    ELSE /\ result' = <<first.interpolated>>
                         /\ Ends("returned", NoExc, <<first.interpolated>>)
                 ELSE result' = <<>> /\ EnterMaxThrust("max_thrust", altitude, mach, NoFrame.chk)
    /\ given' = NotGiven
    /\ calls' = <<"max_thrust">>
    /\ UNCHANGED <<engine, fp, specific_shape, others>>

\* max_thrust: after element idx has its value; the return when it was the last
Advance(tmg) ==
    IF idx < Len(frame.altitude) THEN
        /\ pc' = "max_thrust"
        /\ idx' = idx + 1
        /\ thrust_max_global' = tmg
        /\ UNCHANGED <<exc, frame, fp, result, calls>>
    ELSE
        /\ Ends("returned", NoExc, tmg)
        /\ IF frame.op = "max_thrust"
           THEN result' = tmg /\ UNCHANGED <<fp, calls>>
           ELSE /\ fp' = Written(fp, FlightPointResults(engine, frame.altitude, frame.mach,
                                                         frame.chk, tmg))
                /\ calls' = AllCalls
                /\ UNCHANGED result

\* max_thrust, array branch: one pass of "for idx in range(np.size(altitude))"
\* up to the while loop
MaxThrustElement ==
    /\ pc = "max_thrust"
    /\ LET element == Tabulated(engine, frame.altitude[idx], frame.mach[idx])
       IN  IF element.exceeds THEN
                /\ pc' = "refine"
                /\ efficiency_relative_error' = Scale
                /\ propeller_efficiency' = element.efficiency
                /\ efficiency_old' = element.efficiency
                /\ iterations' = 0
                /\ visited' = {}
                /\ UNCHANGED <<exc, frame, idx, thrust_max_global, fp, result, calls>>
           ELSE /\ Advance([thrust_max_global EXCEPT ![idx] = element.interpolated])
                /\ UNCHANGED <<propeller_efficiency, efficiency_relative_error, efficiency_old,
                               iterations, visited>>
    /\ UNCHANGED <<engine, atmosphere, given, specific_shape, others>>

\* the value the while loop compares with 1e-2 after an iteration
NextRelativeError(efficiency_new, efficiency, relative_error) ==
    RDiv(Abs(efficiency_new - efficiency) * Scale, relative_error)

\* max_thrust, array branch: the test of "while efficiency_relative_error > 1e-2"
\* and, when it holds, one pass of the body
RefineIteration ==
    /\ pc = "refine"
    /\ LET altitude == frame.altitude[idx]
           v == TrueAirspeed(frame.mach[idx], altitude)
           thrust == RDiv(AvailablePower(engine.max_power, altitude) * propeller_efficiency,
                          v * Scale)
           propeller_efficiency_new ==
               PropellerEfficiencyFloat(engine.prop, thrust, altitude, v)
       IN  IF efficiency_relative_error > RelTol THEN
                /\ thrust_max_global' = [thrust_max_global EXCEPT ![idx] = thrust]
                /\ efficiency_relative_error' =
                       NextRelativeError(propeller_efficiency_new, propeller_efficiency,
                                         efficiency_relative_error)
                /\ efficiency_old' = propeller_efficiency
                /\ propeller_efficiency' = propeller_efficiency_new
                /\ iterations' = Min(iterations + 1, MaxIterations)
                /\ visited' = visited \cup {<<propeller_efficiency, efficiency_relative_error>>}
                /\ UNCHANGED <<pc, exc, frame, idx, fp, result, calls>>
           ELSE /\ Advance(thrust_max_global)
                /\ UNCHANGED <<propeller_efficiency, efficiency_relative_error, efficiency_old,
                               iterations, visited>>
    /\ UNCHANGED <<engine, atmosphere, given, specific_shape, others>>

\* no flight point has been handed in
NoFlightPoint == FlightPoint("float", <<CHOOSE c \in Conditions : TRUE>>,
                             <<CHOOSE d \in Demands : TRUE>>, "none_neither", "CRUISE")

\* the instance after __init__, apart from its constructor arguments
Constructed ==
    /\ specific_shape = NoShape
    /\ self_engine = SetItem(NewDict(ENGINE_LABELS), "power_SL", engine.max_power)
    /\ nacelle = NoDict
    /\ fp = NoFlightPoint
    /\ pc = IF unknown_keys = {} THEN "idle" ELSE "raised"
    /\ exc = IF unknown_keys = {} THEN NoExc ELSE UnknownEngineSetting
    /\ frame = NoFrame
    /\ idx = 0
    /\ thrust_max_global = <<>>
    /\ propeller_efficiency = 0
    /\ efficiency_relative_error = 0
    /\ efficiency_old = 0
    /\ iterations = 0
    /\ visited = {}
    /\ result = <<>>
    /\ calls = <<>>
    /\ atmosphere = [altitude |-> <<>>, mach |-> <<>>]
    /\ given = NotGiven

\* no Mach number has reached _compute_flight_points
NoMach == mach_given = <<>> /\ mach_handed = <<>>

NoReference == [is |-> "none", fresh |-> FALSE, input |-> <<>>, output |-> <<>>]

Init ==
    /\ engine \in EngineConfigurations
    /\ Constructed
    /\ NoMach
    /\ reference = NoReference
    /\ Apart

Next ==
    \/ ComputeFlightPoints
    \/ RoundTrip
    \/ MaxThrust
    \/ MaxThrustElement
    \/ RefineIteration

Spec == Init /\ [][Next]_vars

\* The engine used through max_thrust alone.  The interpreter keeps executing
\* the while loop as long as its test holds.
MaxThrustNext ==
    \/ MaxThrust
    \/ MaxThrustElement
    \/ RefineIteration

MaxThrustSpec == Init /\ [][MaxThrustNext]_vars /\ WF_vars(RefineIteration)

-----------------------------------------------------------------------------
(* The Mach numbers of _compute_flight_points, for Mach numbers at and       *)
(* around zero.                                                              *)

\* the mach argument: one element for a float, one per flight point otherwise
MachArguments ==
    UNION { [1..n -> { [hundredths |-> h, tiny |-> t] :
                         h \in {-10, 0, 10, 20}, t \in {-1, 0, 1} }] : n \in 1..MaxPoints }

\* mach = np.asarray(mach) + (np.asarray(mach) == 0) * 1e-12; atmosphere.mach = mach
HandMach ==
    /\ mach_handed = <<>>
    /\ mach_handed' = [i \in 1..Len(mach_given) |-> PerturbedMach(mach_given[i])]
    /\ UNCHANGED <<engine, fp, pc, exc, frame, idx, thrust_max_global, propeller_efficiency,
                   efficiency_relative_error, efficiency_old, iterations, visited, result,
                   calls, atmosphere, given, mach_given, specific_shape, self_engine, nacelle,
                   reference, apart>>

MachInit ==
    /\ engine = CHOOSE eng \in EngineConfigurations :
                    eng.prop = PropellerSameGrid /\ eng.strokes_nb = 4
    /\ Constructed
    /\ mach_given \in MachArguments
    /\ mach_handed = <<>>
    /\ reference = NoReference
    /\ Apart

MachSpec == MachInit /\ [][HandMach]_vars

-----------------------------------------------------------------------------
(* sfc_at_max_power called on instances of every fuel type and stroke count. *)

\* constructor arguments: fuel_type 1.0, 2.0, 3.0 and strokes_nb 2.0, 4.0 and a
\* value that is neither
SfcEngines ==
    { [max_power |-> p, fuel_type |-> f, strokes_nb |-> s, prop_layout |-> 1,
       prop |-> PropellerSameGrid] :
        p \in {60000, 100000, 150000}, f \in {1, 2, 3}, s \in {2, 3, 4} }

SfcInit ==
    /\ engine \in SfcEngines
    /\ Constructed
    /\ NoMach
    /\ reference = NoReference
    /\ Apart

\* engine.sfc_at_max_power(atmosphere)
SfcAtMaxPower ==
    /\ pc = "idle"
    /\ \E altitude \in {0, 1500, 3000} :
          /\ atmosphere' = [altitude |-> <<altitude>>, mach |-> <<>>]
          /\ result' = <<sfc_at_max_power(engine, altitude)>>
    /\ pc' = "returned"
    /\ calls' = <<"sfc_at_max_power">>
    /\ UNCHANGED <<engine, fp, exc, frame, idx, thrust_max_global, propeller_efficiency,
                   efficiency_relative_error, efficiency_old, iterations, visited, given,
                   specific_shape, others>>

SfcSpec == SfcInit /\ [][SfcAtMaxPower]_vars

-----------------------------------------------------------------------------
(* An instance used for a whole session: its methods are called one after    *)
(* the other, in any order, each on the state the previous ones left.        *)

\* floats and arrays of flight conditions, each with one demand for all its
\* points: a thrust of 300 N or a thrust rate of 0.5
SessionFlightPoints ==
    LET demands == { d \in Demands : d.thrust_rate = 500 /\ d.thrust = 300 }
    IN  { FlightPoint("float", c, <<d>>, "flags", "CRUISE") :
            c \in [1..1 -> Conditions], d \in demands }
        \cup UNION { { FlightPoint("array", c, [i \in 1..n |-> d], "flags", "CRUISE") :
                         c \in [1..n -> Conditions], d \in demands } :
                     n \in 1..MaxPoints }

SessionInit ==
    /\ engine \in { eng \in EngineConfigurations :
                       eng.prop \in {PropellerSameGrid, PropellerGentle} }
    /\ Constructed
    /\ NoMach
    /\ reference = NoReference
    /\ Apart

ComputeSessionFlightPoints ==
    /\ pc = "idle"
    /\ \E f \in SessionFlightPoints : Call(f, Given(f))
    /\ UNCHANGED <<engine, others>>

\* a method without loop returns (or raises) in the step that calls it
Returns(method, value) ==
    /\ pc' = "returned"
    /\ exc' = NoExc
    /\ calls' = method
    /\ result' = value
    /\ UNCHANGED <<engine, fp, frame, idx, thrust_max_global, propeller_efficiency,
                   efficiency_relative_error, efficiency_old, iterations, visited, atmosphere,
                   given, mach_given, mach_handed, specific_shape, reference, apart>>

Raises(method, e) ==
    /\ pc' = "raised"
    /\ exc' = e
    /\ calls' = method
    /\ result' = <<>>
    /\ UNCHANGED <<engine, fp, frame, idx, thrust_max_global, propeller_efficiency,
                   efficiency_relative_error, efficiency_old, iterations, visited, atmosphere,
                   given, mach_given, mach_handed, specific_shape, reference, apart>>

\* engine.compute_weight()
ComputeWeight ==
    /\ pc = "idle"
    /\ self_engine' = WeightWritten(engine, self_engine)
    /\ UNCHANGED nacelle
    /\ Returns(<<"compute_weight">>, <<uninstalled_weight(engine)>>)

\* engine.compute_dimensions()
ComputeDimensions ==
    /\ pc = "idle"
    /\ self_engine' = DimensionsWritten(engine, self_engine)
    /\ nacelle' = NacelleBuilt(engine, self_engine')
    /\ Returns(<<"compute_dimensions">>, Dimensions(nacelle'))

\* cf_nac * ff_nac * wet_area + if_nac in mm2, wing_mac in mm, reynolds in
\* thousands.  cf_nac, in 1e-6, is 0.455 / ((1 + 0.144 * mach ** 2) ** 0.65 *
\* log10(reynolds) ** 2.58) through its values at Reynolds numbers 1e5 to 1e8,
\* the Mach factor linearised; ff_nac, in 1/Scale, is 1 + 0.35 / f with
\* f = length / sqrt(4 * height * width / pi), the square root to the mm below
drag_force(n, mach, unit_reynolds, wing_mac) ==
    LET reynolds == RDiv(unit_reynolds * GetAttr(n, "length"), Scale)
        cf_nac == RDiv(Interp(reynolds, <<100, 1000, 10000, 100000>>,
                              <<7157, 4470, 3003, 2128>>) * 10^4,
                       10^4 + RDiv(936 * mach * mach, 10^4))
        area == (4 * GetAttr(n, "height") * GetAttr(n, "width") * 100) \div 314
        d == CHOOSE r \in 0..5000 : r * r <= area /\ area < (r + 1) * (r + 1)
        ff_nac == Scale + RDiv(350 * d, GetAttr(n, "length"))
    IN  RDiv(RDiv(cf_nac * ff_nac, Scale) * GetAttr(n, "wet_area"), 10^4)
        + RDiv(36 * 4 * RDiv(GetAttr(n, "width") * wing_mac, 100), 10^3)

\* the number of targets of "_, _, _, _, _, _ = self.compute_dimensions()"
UnpackTargets == 6

\* engine.compute_drag(mach, unit_reynolds, wing_mac), unit_reynolds in 1000/m
ComputeDrag ==
    /\ pc = "idle"
    /\ self_engine' = DimensionsWritten(engine, self_engine)
    /\ nacelle' = NacelleBuilt(engine, self_engine')
    /\ \E mach \in {10, 20}, unit_reynolds \in {5000}, wing_mac \in {1200} :
          IF Len(Dimensions(nacelle')) # UnpackTargets
          THEN Raises(<<"compute_drag", "compute_dimensions">>, "ValueError")
          ELSE Returns(<<"compute_drag", "compute_dimensions">>,
                       <<drag_force(nacelle', mach, unit_reynolds, wing_mac)>>)

\* what a compute_flight_points call was given, and what it wrote
InputOf(f, g) == <<f.shape, f.mach, f.altitude, f.engine_setting, g.thrust_is_regulated,
                   g.thrust_rate, g.thrust>>
OutputOf(f) == <<f.sfc, f.thrust_rate, f.thrust>>

\* The call is over and the caller goes on to its next one.  The model keeps a
\* returned compute_flight_points call for the properties.
NextCall ==
    /\ pc \in {"returned", "raised"}
    /\ pc' = "idle"
    /\ exc' = NoExc
    /\ fp' = NoFlightPoint
    /\ frame' = NoFrame
    /\ idx' = 0
    /\ thrust_max_global' = <<>>
    /\ LoopReset
    /\ result' = <<>>
    /\ calls' = <<>>
    /\ atmosphere' = [altitude |-> <<>>, mach |-> <<>>]
    /\ given' = NotGiven
    /\ \/ UNCHANGED reference
       \/ /\ reference.is = "none" /\ pc = "returned" /\ given.is = "first"
          /\ reference' = [is |-> "kept",
                            fresh |-> nacelle = NoDict /\ GetAttr(self_engine, "mass") = Absent,
                            input |-> InputOf(fp, given), output |-> OutputOf(fp)]
    /\ UNCHANGED <<engine, mach_given, mach_handed, specific_shape, self_engine, nacelle, apart>>

SessionNext ==
    \/ ComputeSessionFlightPoints
    \/ MaxThrust
    \/ MaxThrustElement
    \/ RefineIteration
    \/ ComputeWeight
    \/ ComputeDimensions
    \/ ComputeDrag
    \/ NextCall

SessionSpec == SessionInit /\ [][SessionNext]_vars

-----------------------------------------------------------------------------
(* A ComputeCnYawRateWing component set up and computed once by the          *)
(* framework, with the option it was given at construction.                  *)

Setup ==
    /\ wing.stage = "initialized"
    /\ wing' = [wing EXCEPT !.stage = "setup",
                            !.declared_inputs = SetupInputs(wing.low_speed_aero),
                            !.declared_outputs = SetupOutputs(wing.low_speed_aero)]
    /\ UNCHANGED <<engine, fp, pc, exc, frame, idx, thrust_max_global, propeller_efficiency,
                   efficiency_relative_error, efficiency_old, iterations, visited, result,
                   calls, atmosphere, given, mach_given, mach_handed, specific_shape,
                   self_engine, nacelle, reference, cg, last_write>>

\* compute(inputs, outputs): inputs and outputs hold the declared variables
\* only; the two figure readings cn_r_lift_effect and cn_r_drag_effect are
\* values of the digitized figures
Compute ==
    /\ wing.stage = "setup"
    /\ LET names == ComputeInputs(wing.low_speed_aero)
           read == CommonInputs \cup {names.cd_0_wing, names.cl_0_wing, names.cl_alpha_wing}
           written == {ComputeOutput(wing.low_speed_aero)}
       IN  IF read \subseteq wing.declared_inputs /\ written \subseteq wing.declared_outputs
           THEN \E aoa_ref \in {87, 175}, cd_0_wing \in {5, 10}, cl_0_wing \in {100, 200},
                   cl_alpha_wing \in {4500, 5000}, lift_effect \in {-20, -10},
                   drag_effect \in {-400, -300} :
                    wing' = [wing EXCEPT
                               !.stage = "computed", !.read = read, !.written = written,
                               !.values = <<aoa_ref, cd_0_wing, cl_0_wing, cl_alpha_wing,
                                            lift_effect, drag_effect>>,
                               !.cn_r = cn_r_w(lift_effect, drag_effect, cl_0_wing,
                                               cl_alpha_wing, aoa_ref, cd_0_wing)]
           ELSE wing' = [wing EXCEPT !.stage = "KeyError",
                                     !.read = read \cap wing.declared_inputs]
    /\ UNCHANGED <<engine, fp, pc, exc, frame, idx, thrust_max_global, propeller_efficiency,
                   efficiency_relative_error, efficiency_old, iterations, visited, result,
                   calls, atmosphere, given, mach_given, mach_handed, specific_shape,
                   self_engine, nacelle, reference, cg, last_write>>

\* an engine for the specifications that do not use it
Unused ==
    /\ engine = CHOOSE eng \in EngineConfigurations :
                    eng.prop = PropellerSameGrid /\ eng.strokes_nb = 4
    /\ Constructed
    /\ NoMach
    /\ reference = NoReference

WingInit ==
    /\ Unused
    /\ wing \in {WingComponent(low_speed_aero) : low_speed_aero \in BOOLEAN}
    /\ cg = CGProblem(CHOOSE c \in Components : TRUE, 1, 0, [aft |-> 0, fwd |-> 0])
    /\ last_write = NoWrites

WingSpec == WingInit /\ [][Setup \/ Compute]_vars

-----------------------------------------------------------------------------
(* The CG pipeline run once on a problem, and its first stage run again on   *)
(* the same components with the masses multiplied and the CGs moved.         *)

CGStep(stage, next) ==
    /\ cg.stage = stage
    /\ cg' = next
    /\ UNCHANGED <<engine, fp, pc, exc, frame, idx, thrust_max_global, propeller_efficiency,
                   efficiency_relative_error, efficiency_old, iterations, visited, result,
                   calls, atmosphere, given, mach_given, mach_handed, specific_shape,
                   self_engine, nacelle, reference, wing, last_write>>

ComputeCGRatioAft ==
    LET e == EmptyAircraft(cg.components)
    IN  CGStep("inputs",
               [cg EXCEPT !.stage = "empty", !.airframe = e.airframe, !.empty = e.empty,
                          !.moved = EmptyAircraft(Transformed(cg.components, cg.k,
                                                              cg.delta)).empty])

ComputeGroundCGCase ==
    CGStep("empty", [cg EXCEPT !.stage = "ground",
                               !.cases.ground = LoadCase(cg.empty, "ground")])

ComputeFlightCGCase ==
    CGStep("ground", [cg EXCEPT !.stage = "flight",
                                !.cases.flight = LoadCase(cg.empty, "flight")])

ComputeMaxMinCGratio ==
    LET e == Envelope(cg.cases, cg.margin)
    IN  CGStep("flight", [cg EXCEPT !.stage = "envelope", !.aft = e.aft, !.fwd = e.fwd])

CGInit ==
    /\ Unused
    /\ wing = WingComponent(FALSE)
    /\ last_write = NoWrites
    /\ cg \in { CGProblem(c, t[1], t[2], margin) :
                   c \in Components, t \in {<<1, 0>>, <<2, 0>>, <<3, 0>>, <<1, 100>>, <<1, -50>>},
                   margin \in {[aft |-> 0, fwd |-> 0], [aft |-> 50, fwd |-> 30]} }

CGSpec ==
    CGInit /\ [][ComputeCGRatioAft \/ ComputeGroundCGCase \/ ComputeFlightCGCase
                    \/ ComputeMaxMinCGratio]_vars

-----------------------------------------------------------------------------
(* An Engine written to from outside, by key and by attribute name, under    *)
(* its declared keys and under the undeclared "foo" of its docstring.  The   *)
(* history keeps the last value written under each name and the access that  *)
(* wrote it, and for the undeclared name the last value of each access.      *)

\* engine[key] = value
EngineSetItem ==
    \E key \in ENGINE_LABELS \cup {"foo"}, value \in {1, 2} :
        /\ self_engine' = SetItem(self_engine, key, value)
        /\ last_write' = [last_write EXCEPT
                             ![key].item = IF key \in ENGINE_LABELS THEN @ ELSE value,
                             ![key].last = value, ![key].by = "item"]
        /\ UNCHANGED <<engine, fp, pc, exc, frame, idx, thrust_max_global, propeller_efficiency,
                       efficiency_relative_error, efficiency_old, iterations, visited, result,
                       calls, atmosphere, given, mach_given, mach_handed, specific_shape,
                       nacelle, reference, wing, cg>>

\* engine.name = value
EngineSetAttr ==
    \E name \in ENGINE_LABELS \cup {"foo"}, value \in {1, 2} :
        /\ self_engine' = SetAttr(self_engine, name, value)
        /\ last_write' = [last_write EXCEPT
                             ![name].attr = IF name \in ENGINE_LABELS THEN @ ELSE value,
                             ![name].last = value, ![name].by = "attr"]
        /\ UNCHANGED <<engine, fp, pc, exc, frame, idx, thrust_max_global, propeller_efficiency,
                       efficiency_relative_error, efficiency_old, iterations, visited, result,
                       calls, atmosphere, given, mach_given, mach_handed, specific_shape,
                       nacelle, reference, wing, cg>>

EngineInit == Unused /\ Apart

EngineSpec == EngineInit /\ [][EngineSetItem \/ EngineSetAttr]_vars

-----------------------------------------------------------------------------
(* A call on floats, then the same call on arrays of one element that hold   *)
(* the same values.  The model keeps the outcome of the first for the        *)
(* properties.                                                               *)

\* flight conditions inside and outside [0, design_altitude]
WideConditions ==
    Conditions \cup { [mach |-> 20, altitude |-> 4000], [mach |-> 10, altitude |-> -500] }

\* how the caller holds a value: as a float first, in an array of one element
\* the second time
Wrapped(x) == IF reference.is = "none" THEN Scalar(x) ELSE Array(<<x>>)

\* the call is the first one, or the second one on the values of the first
Turn(input) ==
    /\ pc = "idle"
    /\ reference.is \in {"none", "kept"}
    /\ reference.is = "kept" => input = reference.input
    /\ reference' = [reference EXCEPT
                        !.is = IF reference.is = "none" THEN "called" ELSE "compared",
                        !.input = input]

\* engine.compute_flight_points(flight_points) on one flight point
ComputeFlightPointsOnePoint ==
    /\ \E c \in WideConditions, d \in Demands, kind \in Presentations :
          LET f == FlightPoint(IF reference.is = "none" THEN "float" ELSE "array",
                               <<c>>, <<d>>, kind, "CRUISE")
          IN  /\ Turn(<<"compute_flight_points", c, d, kind>>)
              /\ Call(f, Given(f))
    /\ UNCHANGED <<engine, mach_given, mach_handed, self_engine, nacelle, apart>>

\* engine.max_thrust(atmosphere) on the atmosphere of one altitude
MaxThrustOnePoint ==
    /\ \E c \in WideConditions :
          LET altitude == Wrapped(c.altitude)
              entry == Tabulated(engine, c.altitude, c.mach)
          IN  /\ Turn(<<"max_thrust", c>>)
              /\ LoopReset
              /\ atmosphere' = [altitude |-> altitude.v, mach |-> <<c.mach>>]
              /\ IF SizeIsOne(altitude) THEN
                    IF entry.exceeds
                    THEN result' = <<>> /\ Ends("raised", UnboundLocal, <<>>)
                    ELSE /\ result' = <<entry.interpolated>>
                         /\ Ends("returned", NoExc, <<entry.interpolated>>)
                 ELSE /\ result' = <<>>
                      /\ EnterMaxThrust("max_thrust", altitude.v, <<c.mach>>, NoFrame.chk)
    /\ given' = NotGiven
    /\ calls' = <<"max_thrust">>
    /\ UNCHANGED <<engine, fp, specific_shape, mach_given, mach_handed, self_engine, nacelle,
                   apart>>

\* engine.propeller_efficiency(thrust, atmosphere) on one thrust
PropellerEfficiencyOnePoint ==
    /\ \E c \in WideConditions, t \in {100, 300, 1200, 5000} :
          LET thrust == Wrapped(t)
              v == TrueAirspeed(c.mach, c.altitude)
          IN  /\ Turn(<<"propeller_efficiency", c, t>>)
              /\ atmosphere' = [altitude |-> <<c.altitude>>, mach |-> <<c.mach>>]
              /\ result' = IF SizeIsOne(thrust)
                           THEN <<PropellerEfficiencyFloat(engine.prop, t, c.altitude, v)>>
                           ELSE [i \in 1..Size(thrust) |->
                                   PropellerEfficiencyElement(engine.prop, thrust.v[i],
                                                              c.altitude, v)]
    /\ pc' = "returned"
    /\ exc' = NoExc
    /\ calls' = <<"propeller_efficiency">>
    /\ UNCHANGED <<engine, fp, frame, idx, thrust_max_global, propeller_efficiency,
                   efficiency_relative_error, efficiency_old, iterations, visited, given,
                   specific_shape, mach_given, mach_handed, self_engine, nacelle, apart>>

\* how a call ended and the values it gave
Outcome == <<pc, exc, calls, result, fp.sfc.v, fp.thrust_rate.v, fp.thrust.v>>

\* The first call is over: the caller puts the same values in arrays of one
\* element.
NextForm ==
    /\ pc \in {"returned", "raised"}
    /\ reference.is = "called"
    /\ reference' = [reference EXCEPT !.is = "kept", !.output = Outcome]
    /\ pc' = "idle"
    /\ exc' = NoExc
    /\ fp' = NoFlightPoint
    /\ frame' = NoFrame
    /\ idx' = 0
    /\ thrust_max_global' = <<>>
    /\ LoopReset
    /\ result' = <<>>
    /\ calls' = <<>>
    /\ atmosphere' = [altitude |-> <<>>, mach |-> <<>>]
    /\ given' = NotGiven
    /\ UNCHANGED <<engine, mach_given, mach_handed, specific_shape, self_engine, nacelle, apart>>

FormsNext ==
    \/ ComputeFlightPointsOnePoint
    \/ MaxThrustOnePoint
    \/ PropellerEfficiencyOnePoint
    \/ NextForm

FormsSpec == Init /\ [][FormsNext]_vars

-----------------------------------------------------------------------------
(* The objects behind a flight point.  The caller keeps the thrust and the   *)
(* thrust rate it puts in the flight point, and the model keeps what they    *)
(* hold after the call.                                                      *)

\* how the caller holds the thrust and the thrust rate of a float flight point:
\* as Python floats or as numpy arrays without dimension; those of an array
\* flight point are numpy arrays
Holdings == {"float", "ndarray"}

\* The object that thrust names at line 227.  np.asarray gives a new array for
\* a float and the array itself for an array; flatten gives a copy (line 168)
\* and so does np.empty_like (lines 298 and 321).
ThrustObject(f, held) ==
    LET a == Arguments(f)
        chk == _check_thrust_inputs(a.thrust_is_regulated, a.thrust_rate, a.thrust)
    IN  IF f.shape # "float" \/ held = "float" THEN "new"
        ELSE IF chk.exc = NoExc /\ chk.thrust = a.thrust THEN "caller"
        ELSE "new"

\* What the caller's thrust_rate and thrust hold after the call.  out_thrust is
\* thrust when np.size(max_thrust) == 1 (line 240) and lines 252 and 254 assign
\* to its elements; out_thrust_rate is bound to a new array (line 259) before
\* anything is assigned to it.
HeldAfter(f, held, ended, written) ==
    <<f.thrust_rate,
      IF ended = "returned" /\ SizeIsOne(f.altitude) /\ ThrustObject(f, held) = "caller"
      THEN written.thrust ELSE f.thrust>>

\* floats and arrays with the flags and both inputs, or with one input alone
HeldFlightPoints ==
    LET kinds == {"flags", "none_rate", "none_thrust"}
    IN  { FlightPoint("float", c, d, kind, "CRUISE") :
            c \in [1..1 -> Conditions], d \in [1..1 -> Demands], kind \in kinds }
        \cup UNION { { FlightPoint("array", c, d, kind, "CRUISE") :
                         c \in [1..n -> Conditions], d \in [1..n -> Demands],
                         kind \in kinds } : n \in 1..MaxPoints }

\* engine.compute_flight_points(flight_points), the caller keeping what it put
\* in flight_points
ComputeFlightPointsOnHeld ==
    /\ pc = "idle"
    /\ \E f \in HeldFlightPoints, held \in Holdings :
          /\ f.shape = "array" => held = "ndarray"
          /\ Call(f, Given(f))
          /\ reference' = [is |-> "held", fresh |-> FALSE, input |-> <<held, f>>,
                            output |-> HeldAfter(f, held, pc', fp')]
    /\ UNCHANGED <<engine, mach_given, mach_handed, self_engine, nacelle, apart>>

HeldNext ==
    \/ ComputeFlightPointsOnHeld
    \/ MaxThrustElement
    \/ RefineIteration

HeldSpec == Init /\ [][HeldNext]_vars

-----------------------------------------------------------------------------
(* Properties of compute_flight_points.  given holds the thrust inputs of    *)
(* the first call on the flight point (given.is = "first") and keeps them    *)
(* through the round trip (given.is = "round_trip").                         *)

Rejected == pc = "raised" /\ exc = InconsistentInput

IsScalarFlag(a, b) == ~IsNone(a) /\ Size(a) = 1 /\ RoundToBool(a.v[1]) = b

NothingToUse(g) ==
    \/ IsNone(g.thrust_is_regulated) /\ IsNone(g.thrust_rate) /\ IsNone(g.thrust)
    \/ IsScalarFlag(g.thrust_is_regulated, TRUE) /\ IsNone(g.thrust)
    \/ IsScalarFlag(g.thrust_is_regulated, FALSE) /\ IsNone(g.thrust_rate)

\* C1: when thrust_is_regulated is None and neither thrust_rate nor thrust is
\* given, or it is a scalar True and thrust is None, or a scalar False and
\* thrust_rate is None, the call raises
\* FastBasicICEngineInconsistentInputParametersError having evaluated nothing
\* but the input check, and sfc, thrust_rate and thrust of the flight point
\* are what they were.
C1_RejectedBeforeAnyComputation ==
    (given.is = "first" /\ NothingToUse(given)) =>
        /\ Rejected
        /\ calls = CheckOnly
        /\ thrust_max_global = <<>>
        /\ fp.sfc = None
        /\ fp.thrust_rate = given.thrust_rate
        /\ fp.thrust = given.thrust

C1_Witness ==
    /\ given.is = "first"
    /\ IsScalarFlag(given.thrust_is_regulated, TRUE)
    /\ IsNone(given.thrust)
    /\ ~IsNone(given.thrust_rate)
    /\ Rejected

SequenceFlags(g) == ~IsNone(g.thrust_is_regulated) /\ Size(g.thrust_is_regulated) > 1

\* a is provided and, flattened as it reaches _check_thrust_inputs, has the
\* shape of the flattened flags
ShapedAs(a, flags) == ~IsNone(a) /\ Flatten(a).dims = Flatten(flags).dims

\* C2: when thrust_is_regulated is a sequence of more than one element, the
\* input check raises FastBasicICEngineInconsistentInputParametersError if
\* thrust_rate is None, if thrust is None, or if one of them has not the shape
\* of thrust_is_regulated; otherwise it returns and the call goes on to
\* max_thrust.
C2_SequenceNeedsBothWithItsShape ==
    (given.is = "first" /\ SequenceFlags(given)) =>
        IF ShapedAs(given.thrust_rate, given.thrust_is_regulated)
           /\ ShapedAs(given.thrust, given.thrust_is_regulated)
        THEN exc = NoExc /\ calls # CheckOnly
        ELSE Rejected /\ calls = CheckOnly

C2_Witness ==
    /\ given.is = "first"
    /\ SequenceFlags(given)
    /\ ShapedAs(given.thrust_rate, given.thrust_is_regulated)
    /\ ~IsNone(given.thrust)
    /\ ~ShapedAs(given.thrust, given.thrust_is_regulated)
    /\ Rejected

Ambiguous(g) == IsNone(g.thrust_is_regulated) /\ ~IsNone(g.thrust_rate) /\ ~IsNone(g.thrust)

\* C3, as claimed: a flight point with thrust_is_regulated None and both
\* thrust and thrust_rate supplied is rejected with
\* FastBasicICEngineInconsistentInputParametersError.
C3_AmbiguousIsRejected ==
    (given.is = "first" /\ Ambiguous(given)) => Rejected

\* C3, as the code has it: a flight point with thrust_is_regulated None and
\* both thrust and thrust_rate supplied is not rejected; thrust_rate is used
\* and the supplied thrust is ignored, so the thrust returned is thrust_rate
\* times the maximum thrust.
C3_AmbiguousUsesThrustRate ==
    (given.is = "first" /\ Ambiguous(given)) =>
        /\ ~Rejected
        /\ pc = "returned" =>
              \A i \in 1..Len(thrust_max_global) :
                  fp.thrust.v[i] = RDiv(At(given.thrust_rate, i) * thrust_max_global[i], Scale)

C3_Witness ==
    /\ given.is = "first"
    /\ Ambiguous(given)
    /\ pc = "returned"
    /\ \E i \in 1..Len(thrust_max_global) :
          /\ At(given.thrust, i) <= thrust_max_global[i]
          /\ fp.thrust.v[i] # At(given.thrust, i)

\* C4: for every flight point compute_flight_points returns for, the thrust
\* rate written is the thrust written divided by the maximum thrust at that
\* point's Mach and altitude, for regulated and for rate-driven points alike.
C4_RateIsThrustOverMaxThrust ==
    (given.is # "none" /\ pc = "returned") =>
        \A i \in 1..Len(thrust_max_global) :
            fp.thrust_rate.v[i] = RDiv(fp.thrust.v[i] * Scale, thrust_max_global[i])

C4_Witness ==
    /\ given.is = "first"
    /\ pc = "returned"
    /\ Len(thrust_max_global) = 2
    /\ thrust_max_global[1] # thrust_max_global[2]
    /\ Regulated(given, 1)
    /\ ~Regulated(given, 2)

\* the resolution of the fixed-point arithmetic, in N and in 1/Scale
ThrustTolerance(max_thrust) == 1 + max_thrust \div Scale
RateTolerance(max_thrust) == 1 + Scale \div max_thrust

\* point i, whose thrust (regulated) or thrust rate (rate-driven) the caller
\* gave, has that value again after the round trip
BackAgain(i) ==
    IF Regulated(given, i)
    THEN Abs(fp.thrust.v[i] - At(given.thrust, i)) <= ThrustTolerance(thrust_max_global[i])
    ELSE Abs(fp.thrust_rate.v[i] - At(given.thrust_rate, i))
             <= RateTolerance(thrust_max_global[i])

\* the value given for point i does not ask for more than the maximum thrust
WithinMaxThrust(i) ==
    IF Regulated(given, i) THEN At(given.thrust, i) <= thrust_max_global[i]
    ELSE At(given.thrust_rate, i) <= Scale

\* C5, as claimed: a thrust T given as regulated yields a thrust rate which,
\* given as unregulated at the same Mach and altitude, yields T again, and a
\* thrust rate r yields a thrust which, given as regulated, yields r again,
\* for all provided values.
C5_RoundTripForAllValues ==
    (given.is = "round_trip" /\ pc = "returned") =>
        \A i \in 1..Len(thrust_max_global) : BackAgain(i)

\* C5, as the code has it: the round trip gives the value back, to the
\* resolution of the arithmetic, for a thrust not above the maximum thrust and
\* for a thrust rate not above 1; a regulated thrust above the maximum thrust
\* is cut to it.
C5_RoundTripWithinMaxThrust ==
    (given.is = "round_trip" /\ pc = "returned") =>
        \A i \in 1..Len(thrust_max_global) : WithinMaxThrust(i) => BackAgain(i)

C5_Witness ==
    /\ given.is = "round_trip"
    /\ pc = "returned"
    /\ Len(thrust_max_global) = 2
    /\ Regulated(given, 1) /\ WithinMaxThrust(1)
    /\ ~Regulated(given, 2) /\ WithinMaxThrust(2)

\* C6: for all inputs the input check accepts, the SFC and the thrust
\* returned are non-negative.
C6_OutputsAreNonNegative ==
    (given.is = "first" /\ pc = "returned") =>
        \A i \in 1..Len(thrust_max_global) : fp.sfc.v[i] >= 0 /\ fp.thrust.v[i] >= 0

\* C18: for every flight point, regulated or not, the thrust returned is at
\* most the maximum thrust at that point: every returned thrust rate is at
\* most 1.0.
C18_ThrustRateAtMostOne ==
    (given.is = "first" /\ pc = "returned") =>
        \A i \in 1..Len(thrust_max_global) :
            /\ fp.thrust.v[i] <= thrust_max_global[i]
            /\ fp.thrust_rate.v[i] <= Scale

\* C19: for an array of flight points with a sequence of flags, the output at
\* index i comes from the thrust given at i when the flag at i is true and
\* from the thrust rate given at i times the maximum thrust at i when it is
\* false; the input of the other kind at i and the inputs at the other
\* indices have no part in it.
C19_RegulationIsElementWise ==
    (given.is = "first" /\ SequenceFlags(given) /\ pc = "returned") =>
        \A i \in 1..Len(thrust_max_global) :
            LET max_thrust == thrust_max_global[i]
                thrust == IF RoundToBool(given.thrust_is_regulated.v[i])
                          THEN Min(given.thrust.v[i], max_thrust)
                          ELSE RDiv(given.thrust_rate.v[i] * max_thrust, Scale)
                thrust_rate == RDiv(thrust * Scale, max_thrust)
            IN  /\ fp.thrust.v[i] = thrust
                /\ fp.thrust_rate.v[i] = thrust_rate
                /\ fp.sfc.v[i] = SfcElement(engine, Len(thrust_max_global), max_thrust,
                                            thrust_rate, thrust, fp.altitude.v[i],
                                            TrueAirspeed(fp.mach.v[i], fp.altitude.v[i]))

C19_Witness ==
    /\ given.is = "first" /\ SequenceFlags(given) /\ pc = "returned"
    /\ Len(thrust_max_global) = 2
    /\ thrust_max_global[1] # thrust_max_global[2]
    /\ RoundToBool(given.thrust_is_regulated.v[1])
    /\ ~RoundToBool(given.thrust_is_regulated.v[2])
    /\ fp.thrust.v[1] = given.thrust.v[1]
    /\ fp.thrust_rate.v[1] # given.thrust_rate.v[1]
    /\ fp.thrust.v[2] # given.thrust.v[2]

-----------------------------------------------------------------------------
(* Properties of max_thrust *)

\* C7: the iterative efficiency refinement of max_thrust, once entered, ends.
C7_RefinementTerminates == (pc = "refine") ~> (pc # "refine")

\* C8: whenever the while loop of max_thrust has exited, the change between
\* the last two efficiency iterates, relative to the older one, is below 1e-2.
C8_ExitMeansRelativeChangeSmall ==
    (pc # "refine" /\ iterations >= 1) =>
        Abs(propeller_efficiency - efficiency_old) * Scale < RelTol * efficiency_old

\* C9: the value max_thrust returns for a flight condition is at most the
\* propeller-limited thrust envelope thrust_max_propeller of that condition.
C9_MaxThrustWithinEnvelope ==
    pc = "returned" =>
        \A i \in 1..Len(thrust_max_global) :
            thrust_max_global[i]
                <= thrust_max_propeller(engine.prop, atmosphere.altitude[i],
                                        TrueAirspeed(atmosphere.mach[i], atmosphere.altitude[i]))

-----------------------------------------------------------------------------
(* Engine setting *)

UnknownSetting(f) == f.engine_setting \notin DOMAIN mixture_values

\* C10, as claimed: computing a flight point whose engine setting has no entry
\* in mixture_values ends in FastUnknownEngineSettingError and writes no SFC,
\* thrust or thrust rate.
C10_UnknownSettingIsRejected ==
    (given.is = "first" /\ UnknownSetting(fp)) =>
        /\ pc = "raised" /\ exc = UnknownEngineSetting
        /\ fp.sfc = None

\* C10, as the code has it: FastUnknownEngineSettingError comes from the
\* constructor only, when a member of EngineSetting has no mixture value;
\* compute_flight_points does not look at the engine setting, and a flight
\* point with an unknown setting that it returns for has its SFC, thrust and
\* thrust rate written like any other.
C10_UnknownSettingIsComputed ==
    /\ exc = UnknownEngineSetting => (given.is = "none" /\ unknown_keys # {})
    /\ (given.is = "first" /\ UnknownSetting(fp) /\ pc = "returned") =>
          /\ ~IsNone(fp.sfc) /\ ~IsNone(fp.thrust) /\ ~IsNone(fp.thrust_rate)
          /\ calls = AllCalls

C10_Witness ==
    /\ given.is = "first"
    /\ UnknownSetting(fp)
    /\ pc = "returned"
    /\ ~IsNone(fp.sfc)

-----------------------------------------------------------------------------
(* Mach number *)

\* C11: the Mach number _compute_flight_points hands to the atmosphere is never
\* exactly zero: every element of its mach argument that equals 0 is replaced
\* by 1e-12, and every other element is passed through unchanged.
C11_HandedMachIsNeverZero ==
    mach_handed # <<>> =>
        \A i \in 1..Len(mach_given) :
            /\ mach_handed[i] # ZeroMach
            /\ mach_handed[i] = IF mach_given[i] = ZeroMach
                                THEN [hundredths |-> 0, tiny |-> MachEpsilon]
                                ELSE mach_given[i]

C11_Witness ==
    /\ Len(mach_handed) = 2
    /\ mach_given[1] = ZeroMach
    /\ mach_handed[1] = [hundredths |-> 0, tiny |-> MachEpsilon]
    /\ mach_given[2] = [hundredths |-> 0, tiny |-> -1]
    /\ mach_handed[2] = mach_given[2]

-----------------------------------------------------------------------------
(* The instance over a session *)

SameAsReference ==
    reference.is = "kept" /\ given.is = "first" /\ InputOf(fp, given) = reference.input

\* C12: on one BasicICEngine instance, compute_flight_points on the same
\* flight-point inputs returns the same sfc, thrust_rate and thrust whatever
\* calls of compute_flight_points with other shapes, max_thrust,
\* compute_weight, compute_dimensions (and compute_drag) were made on the
\* instance before, and no call changes the constructor's attributes: only
\* specific_shape, the engine's mass and dimensions and the nacelle change.
C12_SameInputsSameResults ==
    /\ [](SameAsReference /\ pc \in {"returned", "raised"} =>
              pc = "returned" /\ OutputOf(fp) = reference.output)
    /\ [][/\ engine' = engine
           /\ GetItem(self_engine', "power_SL") = GetItem(self_engine, "power_SL")]_vars

C12_Witness ==
    /\ SameAsReference
    /\ pc = "returned"
    /\ reference.fresh
    /\ nacelle.is = "dict"
    /\ GetAttr(self_engine, "mass") # Absent
    /\ fp.thrust.dims = <<2>>

-----------------------------------------------------------------------------
(* ComputeCnYawRateWing *)

LowSpeedVariables ==
    { "data:aerodynamics:wing:low_speed:CD0", "data:aerodynamics:wing:low_speed:CL0_clean",
      "data:aerodynamics:wing:low_speed:CL_alpha", "data:aerodynamics:wing:low_speed:Cn_r" }
CruiseVariables ==
    { "data:aerodynamics:wing:cruise:CD0", "data:aerodynamics:wing:cruise:CL0_clean",
      "data:aerodynamics:wing:cruise:CL_alpha", "data:aerodynamics:wing:cruise:Cn_r" }

\* C13: in ComputeCnYawRateWing the option low_speed_aero selects one namespace
\* for setup and compute: with the option True compute reads the low_speed
\* CD0, CL0_clean and CL_alpha and none of the cruise ones and writes only
\* data:aerodynamics:wing:low_speed:Cn_r, with False it reads the cruise ones
\* only and writes only data:aerodynamics:wing:cruise:Cn_r, and every variable
\* compute reads or writes was declared by setup for that option value.
C13_OneNamespaceForSetupAndCompute ==
    wing.stage \notin {"initialized", "setup"} =>
        /\ wing.stage = "computed"
        /\ wing.read \subseteq wing.declared_inputs
        /\ wing.written \subseteq wing.declared_outputs
        /\ IF wing.low_speed_aero
           THEN /\ (wing.read \cup wing.written) \cap CruiseVariables = {}
                /\ LowSpeedVariables \subseteq wing.read \cup wing.written
                /\ wing.written = {"data:aerodynamics:wing:low_speed:Cn_r"}
           ELSE /\ (wing.read \cup wing.written) \cap LowSpeedVariables = {}
                /\ CruiseVariables \subseteq wing.read \cup wing.written
                /\ wing.written = {"data:aerodynamics:wing:cruise:Cn_r"}

C13_Witness ==
    /\ wing.stage = "computed"
    /\ wing.low_speed_aero
    /\ "data:aerodynamics:wing:low_speed:CD0" \in wing.read
    /\ wing.cn_r < 0

-----------------------------------------------------------------------------
(* CG pipeline.  A CG is held to the millimetre, so that an aggregate of     *)
(* aggregates is within one millimetre per level of the mean over the        *)
(* leaves.                                                                   *)

Leaves(c) == <<c.wing, c.fuselage, c.tail, c.engine, c.seats>>

\* sum of mass times CG over sum of masses
WeightedMean(parts) == RDiv(TotalMoment(parts), TotalMass(parts))

Computed(stage) ==
    \/ stage = "airframe" /\ cg.stage # "inputs"
    \/ stage = "ground" /\ cg.stage \in {"ground", "flight", "envelope"}
    \/ stage = "flight" /\ cg.stage \in {"flight", "envelope"}
    \/ stage = "envelope" /\ cg.stage = "envelope"

\* C14: at every level of the CG pipeline (airframe, empty aircraft, loaded
\* aircraft under each load case) the aggregate mass is the sum of the
\* component masses and the aggregate CG is the sum of mass times CG over the
\* sum of masses, so that the hierarchy gives the CG of the flat mass-weighted
\* mean over all leaf components.
C14_AggregateIsWeightedMean ==
    /\ Computed("airframe") =>
          LET c == cg.components
          IN  /\ cg.airframe.mass = c.wing.mass + c.fuselage.mass + c.tail.mass
              /\ cg.airframe.x = WeightedMean(<<c.wing, c.fuselage, c.tail>>)
              /\ cg.empty.mass = TotalMass(Leaves(c))
              /\ cg.empty.x = WeightedMean(<<cg.airframe, c.engine, c.seats>>)
              /\ Abs(cg.empty.x - WeightedMean(Leaves(c))) <= 1
    /\ \A case \in {"ground", "flight"} : Computed(case) =>
          \A l \in Loadings(case) :
              LET loaded == Loaded(cg.empty, l)
                  leaves == Leaves(cg.components) \o l
              IN  /\ loaded.mass = TotalMass(leaves)
                  /\ Abs(loaded.x - WeightedMean(leaves)) <= 2
                  /\ MacPosition(loaded.x) <= cg.cases[case].max
                  /\ MacPosition(loaded.x) >= cg.cases[case].min

C14_Witness ==
    /\ Computed("flight")
    /\ cg.airframe.x # cg.empty.x
    /\ cg.cases.flight.max > cg.cases.ground.max
    /\ \E l \in Loadings("flight") :
          Loaded(cg.empty, l).x # cg.empty.x
          /\ Loaded(cg.empty, l).x = WeightedMean(Leaves(cg.components) \o l)

\* C15: CG aggregation is linear: with every component mass multiplied by the
\* same positive constant the aggregate CG is unchanged, and with the same
\* offset added to every component CG the aggregate CG is moved by exactly
\* that offset.
C15_AggregationIsLinear ==
    Computed("airframe") =>
        /\ cg.moved.x = cg.empty.x + cg.delta
        /\ cg.moved.mass = cg.k * cg.empty.mass

C15_Witness ==
    /\ Computed("airframe")
    /\ cg.k = 3
    /\ cg.moved.x = cg.empty.x
    /\ cg.moved.mass = 3 * cg.empty.mass

\* C16: the CG envelope is ordered: in the ground and in the flight load case
\* the max MAC position is at least the min MAC position, and the aircraft's
\* aft MAC position is at least its forward one, at least every load case's
\* max, and its forward one at most every load case's min.
C16_EnvelopeIsOrdered ==
    /\ Computed("ground") => cg.cases.ground.max >= cg.cases.ground.min
    /\ Computed("flight") => cg.cases.flight.max >= cg.cases.flight.min
    /\ Computed("envelope") =>
          /\ cg.aft >= cg.fwd
          /\ \A case \in {"ground", "flight"} :
                cg.aft >= cg.cases[case].max /\ cg.fwd <= cg.cases[case].min

C16_Witness ==
    /\ Computed("envelope")
    /\ cg.cases.flight.max > cg.cases.ground.max
    /\ cg.cases.ground.max > cg.cases.ground.min
    /\ cg.aft = cg.cases.flight.max
    /\ cg.fwd < cg.aft

-----------------------------------------------------------------------------
(* Engine *)

\* C17: for every key declared in ENGINE_LABELS item access and attribute
\* access on an Engine give the same stored value, the value of the last write
\* made by either engine[key] = v or engine.key = v; for the undeclared key foo
\* an item write and an attribute write are independent: engine["foo"] keeps
\* the value of the last item write after engine.foo is assigned, and
\* engine.foo has the value of the last attribute write.
C17_ItemAndAttributeAgree ==
    /\ \A key \in ENGINE_LABELS :
          /\ GetItem(self_engine, key) = GetAttr(self_engine, key)
          /\ last_write[key].last # Absent =>
                GetItem(self_engine, key) = last_write[key].last
    /\ GetItem(self_engine, "foo") = last_write["foo"].item
    /\ GetAttr(self_engine, "foo") = last_write["foo"].attr

C17_Witness ==
    /\ last_write["mass"].by = "attr"
    /\ GetItem(self_engine, "mass") = 2
    /\ last_write["length"].by = "item"
    /\ GetAttr(self_engine, "length") = 1
    /\ last_write["foo"].by = "attr"
    /\ GetItem(self_engine, "foo") = 1
    /\ GetAttr(self_engine, "foo") = 2
    /\ GetItem(self_engine, "foo") = 1
    /\ GetAttr(self_engine, "foo") = 2

\* C20: compute_drag, called on a fresh instance or after compute_dimensions,
\* obtains the dimensions from compute_dimensions, so that the nacelle is set
\* when it reads it, and returns the drag cf_nac * ff_nac * wet_area + if_nac
\* without raising.
C20_ComputeDragReturns ==
    (calls # <<>> /\ calls[1] = "compute_drag") =>
        /\ nacelle.is = "dict"
        /\ pc = "returned" /\ exc = NoExc
        /\ Len(result) = 1

-----------------------------------------------------------------------------
(* sfc_at_max_power *)

\* the fuel of the reference engine that __init__ selected: the Lycoming
\* IO-360-B1A burns gasoline, the TDA CR 1.9 16V is a diesel engine
RefFamily(eng) == IF ref(eng).max_power = 132480 THEN "gasoline" ELSE "diesel"

\* the regression of a fuel family and a stroke count
Regression(family, strokes_nb, p10) ==
    IF family = "gasoline"
    THEN IF strokes_nb = 2 THEN PowerLawTwoStrokes(p10) ELSE GasolineFourStrokes(p10)
    ELSE IF strokes_nb = 2 THEN DieselTwoStrokes(p10) ELSE DieselFourStrokes(p10)

SfcReturned == pc = "returned" /\ calls = <<"sfc_at_max_power">>

\* C21: sfc_at_max_power takes the gasoline regressions for fuel_type 1.0 and
\* the diesel ones for 2.0, the two-stroke one when strokes_nb is 2.0 and the
\* four-stroke one otherwise; for any other fuel_type its result is the
\* gasoline result for the same strokes_nb and atmosphere; and the family it
\* takes is the family of the reference engine the constructor selected.
C21_SfcFamilyIsReferenceFamily ==
    SfcReturned =>
        LET altitude == atmosphere.altitude[1]
            family == IF engine.fuel_type = 2 THEN "diesel" ELSE "gasoline"
        IN  /\ result[1] = Regression(family, engine.strokes_nb, MaxPowerKW(engine, altitude))
            /\ engine.fuel_type \notin {1, 2} =>
                   result[1] = sfc_at_max_power([engine EXCEPT !.fuel_type = 1], altitude)
            /\ RefFamily(engine) = family

-----------------------------------------------------------------------------
(* Floats and arrays of one element *)

\* C22: max_thrust, propeller_efficiency and compute_flight_points called on
\* arrays of one element end as they ended on floats holding the same values:
\* with the same values, or with the same exception, at every altitude and
\* whether or not the sampled mechanical powers exceed the engine power.
C22_OneElementArrayAsFloat ==
    reference.is = "compared" =>
        /\ pc \in {"returned", "raised"}
        /\ Outcome = reference.output

\* a one-element compute_flight_points call, compared, that returned values at
\* an altitude above the design altitude
C22_Witness ==
    /\ reference.is = "compared"
    /\ reference.input[1] = "compute_flight_points"
    /\ pc = "returned"
    /\ fp.shape = "array"
    /\ atmosphere.altitude[1] > engine.prop.design_altitude
    /\ reference.output[1] = "returned"
    /\ Len(fp.sfc.v) = 1

-----------------------------------------------------------------------------
(* What compute_flight_points writes *)

\* C23: a compute_flight_points call that returns has written the sfc, the
\* thrust_rate and the thrust of the flight point and no other field, each
\* with the shape of mach, and the thrust_rate and the thrust that the caller
\* had put in the flight point hold what they held before the call.
C23_OnlyResultsAreWritten ==
    (reference.is = "held" /\ pc = "returned") =>
        LET f == reference.input[2]
        IN  /\ fp = [f EXCEPT !.sfc = fp.sfc, !.thrust_rate = fp.thrust_rate,
                              !.thrust = fp.thrust]
            /\ fp.sfc.dims = f.mach.dims
            /\ fp.thrust_rate.dims = f.mach.dims
            /\ fp.thrust.dims = f.mach.dims
            /\ reference.output = <<f.thrust_rate, f.thrust>>

====
